---- MODULE Spec2Model ----
(***************************************************************************)
(* Position ledger of AlgoPortfolio: PortfolioService over                 *)
(* PortfolioRepository over one SQLite file, driven by concurrent command  *)
(* handlers.  Quantities and prices are Python floats (IEEE-754 binary64), *)
(* stored in REAL columns; the arithmetic below is binary64 with           *)
(* round-to-nearest-even, on sign/magnitude values m * 2^e whose magnitude *)
(* m is a little-endian sequence of 15-bit limbs.                          *)
(***************************************************************************)
EXTENDS Integers, Sequences, FiniteSets, TLC

(* ------------------------------------------------------------------ *)
(* Natural numbers wider than the checker's machine integers           *)
(* ------------------------------------------------------------------ *)

LimbBase == 2^15

Limb(a, i) == IF i <= Len(a) THEN a[i] ELSE 0

RECURSIVE BStrip(_)
BStrip(a) ==
    IF Len(a) = 0 THEN a
    ELSE IF a[Len(a)] = 0 THEN BStrip(SubSeq(a, 1, Len(a) - 1))
    ELSE a

RECURSIVE BAddFrom(_, _, _, _)
BAddFrom(a, b, i, c) ==
    IF i > Len(a) /\ i > Len(b)
    THEN IF c = 0 THEN <<>> ELSE <<c>>
    ELSE LET s == Limb(a, i) + Limb(b, i) + c
         IN  <<s % LimbBase>> \o BAddFrom(a, b, i + 1, s \div LimbBase)

BAdd(a, b) == BAddFrom(a, b, 1, 0)

RECURSIVE BSubFrom(_, _, _, _)
BSubFrom(a, b, i, c) ==
    IF i > Len(a) THEN <<>>
    ELSE LET s == Limb(a, i) - Limb(b, i) - c
         IN  IF s < 0
             THEN <<s + LimbBase>> \o BSubFrom(a, b, i + 1, 1)
             ELSE <<s>> \o BSubFrom(a, b, i + 1, 0)

\* a - b for a >= b
BSub(a, b) == BStrip(BSubFrom(a, b, 1, 0))

RECURSIVE BCmpFrom(_, _, _)
BCmpFrom(a, b, i) ==
    IF i = 0 THEN 0
    ELSE IF a[i] < b[i] THEN -1
    ELSE IF a[i] > b[i] THEN 1
    ELSE BCmpFrom(a, b, i - 1)

\* -1, 0, 1 as a < b, a = b, a > b (both stripped)
BCmp(a, b) ==
    IF Len(a) < Len(b) THEN -1
    ELSE IF Len(a) > Len(b) THEN 1
    ELSE BCmpFrom(a, b, Len(a))

RECURSIVE BMulSmallFrom(_, _, _, _)
BMulSmallFrom(a, k, i, c) ==
    IF i > Len(a)
    THEN IF c = 0 THEN <<>> ELSE <<c>>
    ELSE LET s == a[i] * k + c
         IN  <<s % LimbBase>> \o BMulSmallFrom(a, k, i + 1, s \div LimbBase)

\* a * k for 0 <= k < LimbBase
BMulSmall(a, k) == BStrip(BMulSmallFrom(a, k, 1, 0))

Zeros(n) == [i \in 1..n |-> 0]

RECURSIVE BMulFrom(_, _, _)
BMulFrom(a, b, i) ==
    IF i > Len(b) THEN <<>>
    ELSE BAdd(IF b[i] = 0 THEN <<>> ELSE Zeros(i - 1) \o BMulSmall(a, b[i]),
              BMulFrom(a, b, i + 1))

BMul(a, b) == BStrip(BMulFrom(a, b, 1))

\* a * 2^k
BShl(a, k) ==
    IF Len(a) = 0 THEN a
    ELSE Zeros(k \div 15) \o BMulSmall(a, 2^(k % 15))

\* floor(a / 2^k)
BShr(a, k) ==
    LET d == k \div 15
        r == k % 15
        n == Len(a) - d
    IN  IF n <= 0 THEN <<>>
        ELSE BStrip([i \in 1..n |->
                 (a[i + d] \div 2^r) + (Limb(a, i + d + 1) % 2^r) * 2^(15 - r)])

RECURSIVE IntBits(_)
IntBits(n) == IF n = 0 THEN 0 ELSE 1 + IntBits(n \div 2)

\* number of significant bits of a (stripped)
BBitLen(a) == IF Len(a) = 0 THEN 0 ELSE 15 * (Len(a) - 1) + IntBits(a[Len(a)])

BIsOdd(a) == Len(a) > 0 /\ a[1] % 2 = 1

\* one limb (15 bits) of the quotient of r * 2^15 by d, for r < d:
\* [q |-> digit, r |-> remainder]
RECURSIVE BDivDigit(_, _, _, _)
BDivDigit(r, d, q, n) ==
    IF n = 0 THEN [q |-> q, r |-> r]
    ELSE LET r2 == BAdd(r, r)
         IN  IF BCmp(r2, d) >= 0
             THEN BDivDigit(BSub(r2, d), d, 2 * q + 1, n - 1)
             ELSE BDivDigit(r2, d, 2 * q, n - 1)

\* floor(a * 2^(15 * n) / d) for a < 2 * d: [q |-> quotient, r |-> remainder]
RECURSIVE BDivLimbs(_, _, _)
BDivLimbs(st, d, n) ==
    IF n = 0 THEN st
    ELSE LET dg == BDivDigit(st.r, d, 0, 15)
         IN  BDivLimbs([q |-> <<dg.q>> \o st.q, r |-> dg.r], d, n - 1)

BDivScaled(a, d, n) ==
    LET first == IF BCmp(a, d) >= 0 THEN 1 ELSE 0
        r0    == IF first = 1 THEN BSub(a, d) ELSE a
        st    == BDivLimbs([q |-> <<first>>, r |-> r0], d, n)
    IN  [q |-> BStrip(st.q), r |-> st.r]

(* ------------------------------------------------------------------ *)
(* Python float: binary64, round to nearest, ties to even              *)
(* A value is (-1)^s * m * 2^e; m = <<>> is zero, every other m has    *)
(* exactly MantissaBits significant bits.                              *)
(* ------------------------------------------------------------------ *)

MantissaBits == 53

FZero == [s |-> 0, m |-> <<>>, e |-> 0]

IsZero(x) == Len(x.m) = 0

\* the float nearest to (-1)^s * (n + f) * 2^e, where 0 < f < 1 when
\* sticky and f = 0 otherwise
FRound(s, n, e, sticky) ==
    LET len == BBitLen(n)
    IN  IF len = 0 THEN FZero
        ELSE IF len <= MantissaBits
        THEN [s |-> s, m |-> BShl(n, MantissaBits - len),
              e |-> e - (MantissaBits - len)]
        ELSE LET k    == len - MantissaBits
                 q    == BShr(n, k)
                 rem  == BSub(n, BShl(q, k))
                 c    == BCmp(rem, BShl(<<1>>, k - 1))
                 up   == c > 0 \/ (c = 0 /\ (sticky \/ BIsOdd(q)))
                 q2   == IF up THEN BAdd(q, <<1>>) ELSE q
             IN  IF BBitLen(q2) > MantissaBits
                 THEN [s |-> s, m |-> BShr(q2, 1), e |-> e + k + 1]
                 ELSE [s |-> s, m |-> q2, e |-> e + k]

MinExp(x, y) == IF x.e < y.e THEN x.e ELSE y.e

\* magnitude of x as a multiple of 2^e0, e0 =< x.e
Aligned(x, e0) == BShl(x.m, x.e - e0)

FCmpMag(x, y) ==
    LET e0 == MinExp(x, y) IN BCmp(Aligned(x, e0), Aligned(y, e0))

\* -1, 0, 1 as x < y, x = y, x > y
FCmp(x, y) ==
    IF IsZero(x) /\ IsZero(y) THEN 0
    ELSE IF IsZero(x) THEN (IF y.s = 1 THEN 1 ELSE -1)
    ELSE IF IsZero(y) THEN (IF x.s = 1 THEN -1 ELSE 1)
    ELSE IF x.s # y.s THEN (IF x.s = 1 THEN -1 ELSE 1)
    ELSE IF x.s = 1 THEN 0 - FCmpMag(x, y)
    ELSE FCmpMag(x, y)

FNeg(x) == IF IsZero(x) THEN x ELSE [x EXCEPT !.s = 1 - x.s]

FAdd(x, y) ==
    IF IsZero(x) THEN y
    ELSE IF IsZero(y) THEN x
    ELSE LET e0 == MinExp(x, y)
             xm == Aligned(x, e0)
             ym == Aligned(y, e0)
             c  == BCmp(xm, ym)
         IN  IF x.s = y.s THEN FRound(x.s, BAdd(xm, ym), e0, FALSE)
             ELSE IF c = 0 THEN FZero
             ELSE IF c > 0 THEN FRound(x.s, BSub(xm, ym), e0, FALSE)
             ELSE FRound(y.s, BSub(ym, xm), e0, FALSE)

FSub(x, y) == FAdd(x, FNeg(y))

FMul(x, y) ==
    IF IsZero(x) \/ IsZero(y) THEN FZero
    ELSE FRound((x.s + y.s) % 2, BMul(x.m, y.m), x.e + y.e, FALSE)

\* x / y; Python raises ZeroDivisionError for y = 0, which the callers
\* below never reach (the divisor is a sum with a positive term)
FDiv(x, y) ==
    IF IsZero(x) \/ IsZero(y) THEN FZero
    ELSE LET d == BDivScaled(x.m, y.m, 4)
         IN  FRound((x.s + y.s) % 2, d.q, x.e - y.e - 60, Len(d.r) > 0)

\* float(n) for an integer 0 <= n < 2^30
IntToFloat(n) ==
    FRound(0, BStrip(<<n % LimbBase, n \div LimbBase>>), 0, FALSE)

\* float(Decimal) for a Decimal with one fractional digit, written as its
\* number of tenths: the float nearest to t / 10 (exact when t / 10 is
\* an integer)
DecimalToFloat(t) ==
    IF t % 10 = 0 THEN IntToFloat(t \div 10)
    ELSE FDiv(IntToFloat(t), IntToFloat(10))

\* a natural number below 2^30 held in limbs
BToInt(a) == Limb(a, 1) + LimbBase * Limb(a, 2)

\* f"{x:.2f}": the decimal with two fractional digits nearest to x, ties
\* to even, as its signed number of hundredths (|x| < 10^6)
Format2f(x) ==
    IF IsZero(x) THEN 0
    ELSE LET n    == BMulSmall(x.m, 100)
             k    == 0 - x.e
             q    == IF k <= 0 THEN BShl(n, 0 - k) ELSE BShr(n, k)
             rem  == IF k <= 0 THEN <<>> ELSE BSub(n, BShl(q, k))
             c    == IF k <= 0 THEN -1 ELSE BCmp(rem, BShl(<<1>>, k - 1))
             up   == c > 0 \/ (c = 0 /\ BIsOdd(q))
             h    == BToInt(q) + (IF up THEN 1 ELSE 0)
         IN  IF x.s = 1 THEN 0 - h ELSE h

\* the float written with four fractional digits, given as its number
\* of ten-thousandths: the float nearest to n / 10000
YieldToFloat(n) ==
    IF n < 0 THEN FNeg(FDiv(IntToFloat(0 - n), IntToFloat(10000)))
    ELSE FDiv(IntToFloat(n), IntToFloat(10000))

\* StockInfo.dividend_yield: None (present FALSE), or a float given by its
\* decimal digits as a number of ten-thousandths (41 is 0.0041)
Yield(present, n) == [present |-> present, n |-> n]

NoYield == Yield(FALSE, 0)

\* the dividend line of the /analyze message: "N/A", or a percentage with
\* two decimals given as its number of hundredths
Percent(hundredths) == [available |-> TRUE, hundredths |-> hundredths]

NotAvailable == [available |-> FALSE, hundredths |-> 0]

(* ------------------------------------------------------------------ *)
(* Bounds and inputs                                                   *)
(* ------------------------------------------------------------------ *)

\* operations started in one behaviour
MaxOps == 3

\* seconds the clock of the store advances in one behaviour
MaxNow == 2

\* ledger entries of the largest store the history is read from
MaxLedger == 52

\* concurrent command handlers
Procs == {1, 2}

Users == {1}

\* symbols as typed by the user
Symbols == {"AAPL"}

\* Decimal quantities and prices typed by the user (> 0), in tenths, per
\* specification: a run of buys (2, 5 or 1 shares at 2.0 or 5.0), a run of
\* buys and sells (0.1, 0.2 or 0.5 shares), overlapping buys and sells
\* (1 or 2 shares at 2.0)
BuyQuantities == {10, 20, 50}

BuyPrices == {20, 50}

SeqQuantities == {1, 2, 5}

SeqPrices == {20, 50}

ConcQuantities == {10, 20}

ConcPrices == {20}

\* price of the commands on a Position bought at another price
HeldPrices == {50}

\* quantity (3 shares) and prices (1.4, 2.0) of the commands that close a
\* Position and buy it again
ReopenQuantities == {30}

ReopenPrices == {14, 20}

\* two tickers
ViewSymbols == {"AAPL", "MSFT"}

\* (owner, ticker) of the commands that are checked for what they leave
\* alone
FramePositions == {<<1, "AAPL">>, <<1, "MSFT">>, <<2, "AAPL">>}

\* arguments of /analyze: none, or a ticker
AnalyzeArgs == {<<>>, <<"AAPL">>}

\* dividend yields of a StockInfo: None, and, in ten-thousandths, a
\* negative one, 0 to 0.0060, 0.1490 to 0.1510, 0.52, 5.2 and 15.5
Yields ==
    {NoYield} \cup
    {Yield(TRUE, n) : n \in {-41} \cup (0..60) \cup (1490..1510)
                              \cup {5200, 52000, 155000}}

\* one ticker typed in either letter case
CaseSymbols == {"AAPL", "aapl"}

\* owners and portfolio names given to create_portfolio and
\* get_or_create_portfolio
AccountUsers == {1, 2}

Names == {"My Portfolio", "Growth"}

\* quantity of the buys that overlap with them (1 share)
AccountQuantities == {10}

\* arguments of /history: none, or a limit
HistoryArgs == {<<>>, <<0>>, <<1>>, <<2>>}

\* arguments of /add and /sell, well-formed or not: symbols with a digit
\* or of eleven letters, quantities and prices <= 0 (in tenths)
ValidateSymbols == {"AAPL", "AAPL1", "ABCDEFGHIJK"}

ValidateQuantities == {-10, 0, 10}

ValidatePrices == {0, 20}

LimitArgs == {<<>>, <<-1>>, <<0>>, <<1>>, <<10>>, <<49>>, <<50>>, <<51>>, <<100>>}

(* ------------------------------------------------------------------ *)
(* The store: tables portfolios, holdings, transactions.  A row's id   *)
(* is its index (INTEGER PRIMARY KEY AUTOINCREMENT, no row is deleted).*)
(* ------------------------------------------------------------------ *)

BUY == "BUY"

SELL == "SELL"

\* symbols kept in the case they were typed in
Upper_Identity(sym) == sym

\* str.upper() on the symbols in use
Upper(sym) ==
    CASE sym = "aapl" -> "AAPL"
      [] sym = "msft" -> "MSFT"
      [] OTHER -> sym

\* a Holding value; id = 0 stands for None
Holding(id, portfolio_id, symbol, quantity, avg_cost) ==
    [id |-> id, portfolio_id |-> portfolio_id, symbol |-> symbol,
     quantity |-> quantity, avg_cost |-> avg_cost]

None == Holding(0, 0, "", FZero, FZero)

\* Holding.total_cost
total_cost(h) == FMul(h.quantity, h.avg_cost)

\* SELECT ... FROM portfolios WHERE telegram_user_id = ?  (0: no row)
get_portfolio(pf, user_id) ==
    IF \E i \in 1..Len(pf) : pf[i].telegram_user_id = user_id
    THEN CHOOSE i \in 1..Len(pf) : pf[i].telegram_user_id = user_id
    ELSE 0

\* name TEXT NOT NULL DEFAULT 'My Portfolio', and the default of the name
\* parameter of create_portfolio and get_or_create_portfolio
DefaultName == "My Portfolio"

\* a portfolios table without the UNIQUE constraint on telegram_user_id
DuplicateOwner_Unchecked(pf, user_id) == FALSE

\* telegram_user_id INTEGER UNIQUE: an INSERT for user_id would raise
\* IntegrityError
DuplicateOwner(pf, user_id) ==
    \E i \in 1..Len(pf) : pf[i].telegram_user_id = user_id

\* INSERT INTO portfolios (telegram_user_id, name); the caller has checked
\* the UNIQUE constraint
create_portfolio(pf, user_id, name) ==
    Append(pf, [telegram_user_id |-> user_id, name |-> name])

\* the row of the symbol looked up in every portfolio
get_holding_by_symbol_AnyOwner(hs, portfolio_id, symbol) == IF \E i \in 1..Len(hs) : hs[i].symbol = Upper(symbol) THEN LET i == CHOOSE j \in 1..Len(hs) : hs[j].symbol = Upper(symbol) IN Holding(i, hs[i].portfolio_id, hs[i].symbol, hs[i].quantity, hs[i].avg_cost) ELSE None

\* SELECT ... FROM holdings WHERE portfolio_id = ? AND symbol = ?
get_holding_by_symbol(hs, portfolio_id, symbol) ==
    LET sym == Upper(symbol)
        hit(i) == hs[i].portfolio_id = portfolio_id /\ hs[i].symbol = sym
    IN  IF \E i \in 1..Len(hs) : hit(i)
        THEN LET i == CHOOSE j \in 1..Len(hs) : hit(j)
             IN  Holding(i, hs[i].portfolio_id, hs[i].symbol,
                         hs[i].quantity, hs[i].avg_cost)
        ELSE None

\* add_holding with the bought quantity taken off the held one
BuyQuantity_Subtracts(existing, quantity) == FSub(existing.quantity, quantity)

\* add_holding, existing row: the new quantity
BuyQuantity(existing, quantity) == FAdd(existing.quantity, quantity)

\* add_holding, existing row: the new average cost
BuyAvgCost(existing, quantity, price) ==
    FDiv(FAdd(total_cost(existing), FMul(quantity, price)),
         BuyQuantity(existing, quantity))

\* the Holding add_holding writes and returns, given what it read
BuyHolding(existing, next_id, portfolio_id, symbol, quantity, price) ==
    IF existing.id # 0
    THEN Holding(existing.id, portfolio_id, Upper(symbol),
                 BuyQuantity(existing, quantity),
                 BuyAvgCost(existing, quantity, price))
    ELSE Holding(next_id, portfolio_id, Upper(symbol), quantity, price)

\* UPDATE holdings SET quantity = ?, avg_cost = ? WHERE id = ?
update_holding(hs, holding_id, quantity, avg_cost) ==
    [hs EXCEPT ![holding_id].quantity = quantity,
               ![holding_id].avg_cost = avg_cost]

\* UPDATE holdings SET quantity = 0 WHERE id = ?
remove_holding(hs, holding_id) ==
    [hs EXCEPT ![holding_id].quantity = FZero]

\* an INSERT that is never committed
insert_holding_Uncommitted(hs, h) == hs

\* INSERT INTO holdings; the caller has checked UNIQUE(portfolio_id, symbol)
insert_holding(hs, h) ==
    Append(hs, [portfolio_id |-> h.portfolio_id, symbol |-> h.symbol,
                quantity |-> h.quantity, avg_cost |-> h.avg_cost])

\* add_holding handing the new totals of the row to record_transaction
BuyEntry_Totals(holding, quantity, price) ==
    [quantity |-> holding.quantity, price |-> holding.avg_cost]

\* add_holding: the quantity and price it hands to record_transaction
BuyEntry(holding, quantity, price) ==
    [quantity |-> quantity, price |-> price]

\* record_transaction writing over the newest row instead of adding one
record_transaction_Overwrites(ts, holding_id, transaction_type, quantity, price, timestamp) ==
    LET t == [holding_id |-> holding_id,
              transaction_type |-> transaction_type,
              quantity |-> quantity, price |-> price,
              timestamp |-> timestamp]
    IN  IF ts = <<>> THEN <<t>> ELSE [ts EXCEPT ![Len(ts)] = t]

\* INSERT INTO transactions; timestamp is DEFAULT CURRENT_TIMESTAMP, the
\* clock of the store read in whole seconds
record_transaction(ts, holding_id, transaction_type, quantity, price, timestamp) ==
    Append(ts, [holding_id |-> holding_id,
                transaction_type |-> transaction_type,
                quantity |-> quantity, price |-> price,
                timestamp |-> timestamp])

\* sell_holding with the comparison turned around
Oversell_Inverted(holding, quantity) == FCmp(quantity, holding.quantity) < 0

\* sell_holding: float(quantity) > holding.quantity
Oversell(holding, quantity) == FCmp(quantity, holding.quantity) > 0

\* sell_holding: holding.quantity - float(quantity)
SellQuantity(holding, quantity) == FSub(holding.quantity, quantity)

\* sell_holding: new_quantity <= 0, the branch that calls remove_holding
SellCloses(holding, quantity) ==
    FCmp(SellQuantity(holding, quantity), FZero) <= 0

\* sell_holding spreading the cost basis over the shares that remain
SellWrite_RecomputesAvgCost(hs, holding, quantity) ==
    IF SellCloses(holding, quantity)
    THEN remove_holding(hs, holding.id)
    ELSE update_holding(hs, holding.id, SellQuantity(holding, quantity),
                        FDiv(total_cost(holding),
                             SellQuantity(holding, quantity)))

\* the holdings table after the write of sell_holding
SellWrite(hs, holding, quantity) ==
    IF SellCloses(holding, quantity)
    THEN remove_holding(hs, holding.id)
    ELSE update_holding(hs, holding.id, SellQuantity(holding, quantity),
                        holding.avg_cost)

\* sell_holding returning the Holding as it read it
SellHolding_AsRead(holding, portfolio_id, symbol, quantity) == holding

\* the Holding sell_holding returns
SellHolding(holding, portfolio_id, symbol, quantity) ==
    Holding(holding.id, portfolio_id, Upper(symbol),
            IF SellCloses(holding, quantity) THEN FZero
            ELSE SellQuantity(holding, quantity),
            holding.avg_cost)

(* ------------------------------------------------------------------ *)
(* Read views                                                          *)
(* ------------------------------------------------------------------ *)

\* every symbol of the same rank
SymbolRank_Insertion(sym) == 1

\* ORDER BY symbol on the symbols in use
SymbolRank(sym) ==
    CASE sym = "AAPL" -> 1
      [] sym = "MSFT" -> 2
      [] sym = "aapl" -> 3
      [] sym = "msft" -> 4
      [] OTHER -> 5

\* the ids in a set of holdings rows, as a sequence ordered by symbol
RECURSIVE OrderBySymbol(_, _)
OrderBySymbol(hs, ids) ==
    IF ids = {} THEN <<>>
    ELSE LET i == CHOOSE j \in ids :
                     \A k \in ids : SymbolRank(hs[j].symbol)
                                       <= SymbolRank(hs[k].symbol)
         IN  <<Holding(i, hs[i].portfolio_id, hs[i].symbol,
                       hs[i].quantity, hs[i].avg_cost)>>
             \o OrderBySymbol(hs, ids \ {i})

\* get_holdings with quantity >= 0 in the WHERE clause
get_holdings_IncludesZero(hs, portfolio_id) ==
    OrderBySymbol(hs, {i \in 1..Len(hs) :
                          /\ hs[i].portfolio_id = portfolio_id
                          /\ FCmp(hs[i].quantity, FZero) >= 0})

\* SELECT ... FROM holdings WHERE portfolio_id = ? AND quantity > 0
\* ORDER BY symbol
get_holdings(hs, portfolio_id) ==
    OrderBySymbol(hs, {i \in 1..Len(hs) :
                          /\ hs[i].portfolio_id = portfolio_id
                          /\ FCmp(hs[i].quantity, FZero) > 0})

\* PortfolioService.get_holdings
service_get_holdings(pf, hs, user_id) ==
    IF get_portfolio(pf, user_id) = 0 THEN <<>>
    ELSE get_holdings(hs, get_portfolio(pf, user_id))

\* transactions t JOIN holdings h ON t.holding_id = h.id
\* WHERE h.portfolio_id = ?: the ids of the rows
JoinedRows(ts, hs, portfolio_id) ==
    {i \in 1..Len(ts) :
        /\ ts[i].holding_id \in 1..Len(hs)
        /\ hs[ts[i].holding_id].portfolio_id = portfolio_id}

\* ORDER BY t.timestamp DESC LIMIT k over the rows with ids in rows: the
\* sequences of row ids the query can return.  Rows with equal timestamps
\* come in an order the query does not fix.
RECURSIVE OrderByTimestampDesc(_, _, _)
OrderByTimestampDesc(ts, rows, k) ==
    IF k = 0 \/ rows = {} THEN {<<>>}
    ELSE LET newest == {i \in rows :
                           \A j \in rows : ts[j].timestamp <= ts[i].timestamp}
         IN  UNION {{<<i>> \o rest :
                        rest \in OrderByTimestampDesc(ts, rows \ {i}, k - 1)} :
                    i \in newest}

\* get_all_transactions(portfolio_id, limit): the sequences of row ids it
\* can return (a negative LIMIT is no limit)
get_all_transactions(ts, hs, portfolio_id, limit) ==
    LET rows == JoinedRows(ts, hs, portfolio_id)
    IN  OrderByTimestampDesc(ts, rows,
            IF limit < 0 \/ limit > Cardinality(rows)
            THEN Cardinality(rows) ELSE limit)

\* PortfolioService.get_transactions(user_id, limit)
service_get_transactions(pf, hs, ts, user_id, limit) ==
    IF get_portfolio(pf, user_id) = 0 THEN {<<>>}
    ELSE get_all_transactions(ts, hs, get_portfolio(pf, user_id), limit)

\* default of the limit parameter of PortfolioService.get_transactions
ServiceLimit == 50

(* ------------------------------------------------------------------ *)
(* A service call run alone, from its first await to its return, on a  *)
(* store st = [portfolios, holdings, transactions]                     *)
(* ------------------------------------------------------------------ *)

SerialBuy(st, r) ==
    LET found == get_portfolio(st.portfolios, r.user_id)
        pid == IF found # 0 THEN found ELSE Len(st.portfolios) + 1
        existing == get_holding_by_symbol(st.holdings, pid, r.symbol)
        h == BuyHolding(existing, Len(st.holdings) + 1, pid, r.symbol,
                        DecimalToFloat(r.quantity), DecimalToFloat(r.price))
    IN  [portfolios |-> IF found # 0 THEN st.portfolios
                        ELSE create_portfolio(st.portfolios, r.user_id,
                                              DefaultName),
         holdings |-> IF existing.id # 0
                      THEN update_holding(st.holdings, h.id, h.quantity,
                                          h.avg_cost)
                      ELSE insert_holding(st.holdings, h),
         transactions |-> record_transaction(st.transactions, h.id, BUY,
                              DecimalToFloat(r.quantity),
                              DecimalToFloat(r.price), st.now),
         now |-> st.now]

SerialSell(st, r) ==
    LET pid == get_portfolio(st.portfolios, r.user_id)
        h == get_holding_by_symbol(st.holdings, pid, r.symbol)
        q == DecimalToFloat(r.quantity)
    IN  IF pid = 0 \/ h.id = 0 \/ Oversell(h, q) THEN st
        ELSE [portfolios |-> st.portfolios,
              holdings |-> SellWrite(st.holdings, h, q),
              transactions |-> record_transaction(st.transactions, h.id,
                                   SELL, q, DecimalToFloat(r.price),
                                   st.now),
              now |-> st.now]

SerialApply(st, r) == IF r.op = BUY THEN SerialBuy(st, r) ELSE SerialSell(st, r)

\* the stores that running the commands rs[i], i \in idx, one after
\* another in some order can leave
RECURSIVE SerialOutcomes(_, _, _)
SerialOutcomes(st, rs, idx) ==
    IF idx = {} THEN {st}
    ELSE UNION {SerialOutcomes(SerialApply(st, rs[i]), rs, idx \ {i}) :
                   i \in idx}

(* ------------------------------------------------------------------ *)
(* State                                                               *)
(* ------------------------------------------------------------------ *)

VARIABLES
    portfolios,     \* table portfolios
    holdings,       \* table holdings
    transactions,   \* table transactions
    pc,             \* per handler: the await it is suspended at
    req,            \* per handler: the validated command
    loc,            \* per handler: portfolio, holding read, holding returned
    ret,            \* per handler: how the service call ended
    started,        \* operations started so far
    base,           \* history: the store when the running batch began
    batch,          \* history: the commands started since then
    now,            \* the clock of the store, in whole seconds
    fetch           \* the quote client: the get_price call in progress

vars == <<portfolios, holdings, transactions, pc, req, loc, ret,
          started, base, batch, now, fetch>>

store == <<portfolios, holdings, transactions>>

\* what the ledger handlers leave alone: the clock and the quote client
elsewhere == <<now, fetch>>

\* a command: its arguments as typed (arg: the symbol, name: the portfolio
\* name, args: the arguments of /history) and the symbol the handler
\* derived
NoReq ==
    [op |-> "", user_id |-> 0, arg |-> "", symbol |-> "", quantity |-> 0,
     price |-> 0, name |-> "", args |-> <<>>]

\* the two quantities in the message of the ValueError of sell_holding
NoMessage == [requested |-> 0, held |-> FZero]

\* the locals of a call: the portfolio id and name it holds, the holding
\* it read, the holding it returns, the rows it lists, the message of the
\* ValueError it raises, the holdings it lists, the (holding, price) pairs
\* of fetch_current_prices and what the provider does with each of its
\* get_price calls, the store access that failed, the dividend yield of
\* the StockInfo of /analyze and the text it is shown as
NoLoc ==
    [portfolio |-> 0, name |-> "", existing |-> None, holding |-> None,
     listed |-> <<>>, message |-> NoMessage, positions |-> <<>>,
     results |-> <<>>, scripts |-> <<>>, failed |-> "",
     dividend_yield |-> NoYield, div_yield |-> NotAvailable]

\* what the provider does with one attempt: it raises (kind "rate_limit":
\* the message carries 429 or "too many requests"; kind "failure": any
\* other message), returns ticker.info (kind "info"), or never responds
\* (kind "hang").  Of ticker.info: whether it carries the "symbol" key (an
\* empty info carries nothing), and the values under "currentPrice",
\* "regularMarketPrice", "previousClose" and "regularMarketPreviousClose"
\* in tenths, 0 for a key that is missing or holds None or 0 (`or` and
\* `not` treat the three alike).
Info(symbol, currentPrice, regularMarketPrice, previousClose, regularMarketPreviousClose) ==
    [kind |-> "info", symbol |-> symbol, currentPrice |-> currentPrice,
     regularMarketPrice |-> regularMarketPrice,
     previousClose |-> previousClose,
     regularMarketPreviousClose |-> regularMarketPreviousClose]

\* a response of the given kind; an info with the price under
\* "currentPrice" only
Response(kind, symbol, price) ==
    [Info(symbol, price, 0, 0, 0) EXCEPT !.kind = kind]

NoResponse == Response("", FALSE, 0)

\* no call of the quote client has been made.  call: get_price, get_info
\* or health_check; script: what the provider will do with each attempt;
\* attempt: the loop variable; log: the provider attempts and sleeps so
\* far; info, price, change, change_percent, error: how get_price or
\* get_info ended; healthy: what health_check returned
NoFetch ==
    [pc |-> "idle", call |-> "", symbol |-> "", script |-> <<>>,
     attempt |-> 0, log |-> <<>>, info |-> NoResponse, price |-> FZero,
     change |-> FZero, change_percent |-> FZero, error |-> "",
     healthy |-> FALSE]

Init ==
    /\ portfolios = <<>>
    /\ holdings = <<>>
    /\ transactions = <<>>
    /\ pc = [p \in Procs |-> "idle"]
    /\ req = [p \in Procs |-> NoReq]
    /\ loc = [p \in Procs |-> NoLoc]
    /\ ret = [p \in Procs |-> ""]
    /\ started = 0
    /\ base = [portfolios |-> <<>>, holdings |-> <<>>, transactions |-> <<>>,
               now |-> 0]
    /\ batch = <<>>
    /\ now = 0
    /\ fetch = NoFetch

\* no service call is in flight
Quiescent == \A p \in Procs : pc[p] \in {"idle", "done"}

qty(p) == DecimalToFloat(req[p].quantity)

price(p) == DecimalToFloat(req[p].price)

(* ------------------------------------------------------------------ *)
(* Command handlers: add_command / sell_command after validation       *)
(* ------------------------------------------------------------------ *)

\* str.isalpha() on the symbols in use
IsAlpha(sym) ==
    CASE sym = "AAPL1" -> FALSE
      [] sym = "" -> FALSE
      [] OTHER -> TRUE

\* len() on the symbols in use
SymbolLength(sym) ==
    CASE sym = "ABCDEFGHIJK" -> 11
      [] sym = "AAPL1" -> 5
      [] sym = "" -> 0
      [] OTHER -> 4

\* not (not symbol.isalpha() or len(symbol) > 10)
ValidSymbol(sym) == IsAlpha(sym) /\ SymbolLength(sym) <= 10

\* the quantity check letting 0 through
ValidQuantity_AllowsZero(q) == q >= 0

\* not (quantity <= 0)
ValidQuantity(q) == q > 0

\* not (price <= 0)
ValidPrice(pr) == pr > 0

\* the command a handler has parsed: symbol = args[0].upper().strip()
Command(op, u, sym, q, pr) ==
    [op |-> op, user_id |-> u, arg |-> sym, symbol |-> Upper(sym),
     quantity |-> q, price |-> pr, name |-> "", args |-> <<>>]

\* the handler calls the service with a validated command
Start(p, op, u, sym, q, pr) ==
    LET r == Command(op, u, sym, q, pr)
    IN  /\ pc[p] \in {"idle", "done"}
        /\ started < MaxOps
        /\ started' = started + 1
        /\ pc' = [pc EXCEPT ![p] = IF op = BUY THEN "buy_get_portfolio"
                                   ELSE "sell_get_portfolio"]
        /\ req' = [req EXCEPT ![p] = r]
        /\ loc' = [loc EXCEPT ![p] = NoLoc]
        /\ ret' = [ret EXCEPT ![p] = ""]
        /\ base' = IF Quiescent
                   THEN [portfolios |-> portfolios, holdings |-> holdings,
                         transactions |-> transactions, now |-> now]
                   ELSE base
        /\ batch' = IF Quiescent THEN <<r>> ELSE Append(batch, r)
        /\ UNCHANGED <<store, elsewhere>>

\* a handler replies to the command r without calling a service
Refuse(p, r, reply) ==
    /\ pc[p] \in {"idle", "done"}
    /\ started < MaxOps
    /\ started' = started + 1
    /\ pc' = [pc EXCEPT ![p] = "done"]
    /\ req' = [req EXCEPT ![p] = r]
    /\ loc' = [loc EXCEPT ![p] = NoLoc]
    /\ ret' = [ret EXCEPT ![p] = reply]
    /\ base' = IF Quiescent
               THEN [portfolios |-> portfolios, holdings |-> holdings,
                     transactions |-> transactions, now |-> now]
               ELSE base
    /\ batch' = IF Quiescent THEN <<r>> ELSE Append(batch, r)
    /\ UNCHANGED <<store, elsewhere>>

\* add_command: validate symbol, quantity and price, then add_holding
add_command(p, u, sym, q, pr) ==
    IF ValidSymbol(Upper(sym)) /\ ValidQuantity(q) /\ ValidPrice(pr)
    THEN Start(p, BUY, u, sym, q, pr)
    ELSE Refuse(p, Command(BUY, u, sym, q, pr), "Invalid")

\* sell_command: validate symbol, quantity and price, then sell_holding
sell_command(p, u, sym, q, pr) ==
    IF ValidSymbol(Upper(sym)) /\ ValidQuantity(q) /\ ValidPrice(pr)
    THEN Start(p, SELL, u, sym, q, pr)
    ELSE Refuse(p, Command(SELL, u, sym, q, pr), "Invalid")

(* ------------------------------------------------------------------ *)
(* PortfolioService.add_holding, one action per store access           *)
(* ------------------------------------------------------------------ *)

\* get_or_create_portfolio: get_portfolio
BuyGetPortfolio(p) ==
    /\ pc[p] = "buy_get_portfolio"
    /\ LET id == get_portfolio(portfolios, req[p].user_id)
       IN  /\ loc' = [loc EXCEPT ![p].portfolio = id]
           /\ pc' = [pc EXCEPT ![p] = IF id # 0 THEN "buy_get_holding"
                                      ELSE "buy_create_portfolio"]
    /\ UNCHANGED <<store, req, ret, started, base, batch, elsewhere>>

\* get_or_create_portfolio: create_portfolio, INSERT and commit; the
\* UNIQUE constraint on telegram_user_id raises IntegrityError
BuyCreatePortfolio(p) ==
    /\ pc[p] = "buy_create_portfolio"
    /\ IF DuplicateOwner(portfolios, req[p].user_id)
       THEN /\ pc' = [pc EXCEPT ![p] = "buy_refetch_portfolio"]
            /\ UNCHANGED <<portfolios, loc>>
       ELSE /\ portfolios' = create_portfolio(portfolios, req[p].user_id,
                                              DefaultName)
            /\ loc' = [loc EXCEPT ![p].portfolio = Len(portfolios) + 1]
            /\ pc' = [pc EXCEPT ![p] = "buy_get_holding"]
    /\ UNCHANGED <<holdings, transactions, req, ret, started, base, batch, elsewhere>>

\* create_portfolio, except IntegrityError: return get_portfolio(user_id)
BuyRefetchPortfolio(p) ==
    /\ pc[p] = "buy_refetch_portfolio"
    /\ loc' = [loc EXCEPT ![p].portfolio =
                  get_portfolio(portfolios, req[p].user_id)]
    /\ pc' = [pc EXCEPT ![p] = "buy_get_holding"]
    /\ UNCHANGED <<store, req, ret, started, base, batch, elsewhere>>

\* repo.add_holding: existing = get_holding_by_symbol(...)
BuyGetHolding(p) ==
    /\ pc[p] = "buy_get_holding"
    /\ loc' = [loc EXCEPT ![p].existing =
                  get_holding_by_symbol(holdings, loc[p].portfolio,
                                        req[p].symbol)]
    /\ pc' = [pc EXCEPT ![p] = "buy_write"]
    /\ UNCHANGED <<store, req, ret, started, base, batch, elsewhere>>

\* repo.add_holding: UPDATE or INSERT, then commit.  An INSERT that
\* breaks UNIQUE(portfolio_id, symbol) raises IntegrityError, which
\* add_holding turns into DatabaseError.
BuyWrite(p) ==
    /\ pc[p] = "buy_write"
    /\ LET existing == loc[p].existing
           h == BuyHolding(existing, Len(holdings) + 1, loc[p].portfolio,
                           req[p].symbol, qty(p), price(p))
       IN  IF existing.id # 0
           THEN /\ holdings' = update_holding(holdings, h.id, h.quantity,
                                              h.avg_cost)
                /\ loc' = [loc EXCEPT ![p].holding = h]
                /\ pc' = [pc EXCEPT ![p] = "buy_record"]
                /\ ret' = ret
           ELSE IF get_holding_by_symbol(holdings, loc[p].portfolio,
                                         req[p].symbol).id # 0
           THEN /\ pc' = [pc EXCEPT ![p] = "done"]
                /\ ret' = [ret EXCEPT ![p] = "DatabaseError"]
                /\ UNCHANGED <<holdings, loc>>
           ELSE /\ holdings' = insert_holding(holdings, h)
                /\ loc' = [loc EXCEPT ![p].holding = h]
                /\ pc' = [pc EXCEPT ![p] = "buy_record"]
                /\ ret' = ret
    /\ UNCHANGED <<portfolios, transactions, req, started, base, batch, elsewhere>>

\* repo.add_holding: record_transaction(holding.id, BUY, quantity, price)
BuyRecord(p) ==
    /\ pc[p] = "buy_record"
    /\ LET e == BuyEntry(loc[p].holding, qty(p), price(p))
       IN  transactions' = record_transaction(transactions,
                               loc[p].holding.id, BUY, e.quantity, e.price,
                               now)
    /\ pc' = [pc EXCEPT ![p] = "done"]
    /\ ret' = [ret EXCEPT ![p] = "Holding"]
    /\ UNCHANGED <<portfolios, holdings, req, loc, started, base, batch, elsewhere>>

(* ------------------------------------------------------------------ *)
(* PortfolioService.sell_holding, one action per store access          *)
(* ------------------------------------------------------------------ *)

\* portfolio = get_portfolio(user_id); if not portfolio: return None
SellGetPortfolio(p) ==
    /\ pc[p] = "sell_get_portfolio"
    /\ LET id == get_portfolio(portfolios, req[p].user_id)
       IN  /\ loc' = [loc EXCEPT ![p].portfolio = id]
           /\ pc' = [pc EXCEPT ![p] = IF id # 0 THEN "sell_get_holding"
                                      ELSE "done"]
           /\ ret' = [ret EXCEPT ![p] = IF id # 0 THEN "" ELSE "None"]
    /\ UNCHANGED <<store, req, started, base, batch, elsewhere>>

\* the message naming the requested quantity in place of the held one
OversellMessage_Requested(quantity, holding) == [requested |-> quantity, held |-> DecimalToFloat(quantity)]

\* f"Cannot sell {quantity} shares. You only own {holding.quantity}."
OversellMessage(quantity, holding) ==
    [requested |-> quantity, held |-> holding.quantity]

\* holding = get_holding_by_symbol(...); if not holding: return None;
\* if float(quantity) > holding.quantity: raise ValueError
SellGetHolding(p) ==
    /\ pc[p] = "sell_get_holding"
    /\ LET h == get_holding_by_symbol(holdings, loc[p].portfolio,
                                      req[p].symbol)
       IN  /\ loc' = [loc EXCEPT
                         ![p].existing = h,
                         ![p].message =
                             IF h.id # 0 /\ Oversell(h, qty(p))
                             THEN OversellMessage(req[p].quantity, h)
                             ELSE NoMessage]
           /\ IF h.id = 0
              THEN /\ pc' = [pc EXCEPT ![p] = "done"]
                   /\ ret' = [ret EXCEPT ![p] = "None"]
              ELSE IF Oversell(h, qty(p))
              THEN /\ pc' = [pc EXCEPT ![p] = "done"]
                   /\ ret' = [ret EXCEPT ![p] = "ValueError"]
              ELSE /\ pc' = [pc EXCEPT ![p] = "sell_write"]
                   /\ ret' = ret
    /\ UNCHANGED <<store, req, started, base, batch, elsewhere>>

\* remove_holding(holding.id) or
\* update_holding(holding.id, new_quantity, holding.avg_cost)
SellWriteStep(p) ==
    /\ pc[p] = "sell_write"
    /\ holdings' = SellWrite(holdings, loc[p].existing, qty(p))
    /\ loc' = [loc EXCEPT ![p].holding =
                  SellHolding(loc[p].existing, loc[p].portfolio,
                              req[p].symbol, qty(p))]
    /\ pc' = [pc EXCEPT ![p] = "sell_record"]
    /\ UNCHANGED <<portfolios, transactions, req, ret, started, base, batch, elsewhere>>

\* record_transaction(holding.id, SELL, quantity, sell_price)
SellRecord(p) ==
    /\ pc[p] = "sell_record"
    /\ transactions' = record_transaction(transactions, loc[p].existing.id,
                                          SELL, qty(p), price(p), now)
    /\ pc' = [pc EXCEPT ![p] = "done"]
    /\ ret' = [ret EXCEPT ![p] = "Holding"]
    /\ UNCHANGED <<portfolios, holdings, req, loc, started, base, batch, elsewhere>>

(* ------------------------------------------------------------------ *)
(* PortfolioRepository.create_portfolio and get_or_create_portfolio,   *)
(* called on their own, one action per store access                    *)
(* ------------------------------------------------------------------ *)

\* a handler takes up the command r and suspends at first_pc
Begin(p, r, first_pc) ==
    /\ pc[p] \in {"idle", "done"}
    /\ started < MaxOps
    /\ started' = started + 1
    /\ pc' = [pc EXCEPT ![p] = first_pc]
    /\ req' = [req EXCEPT ![p] = r]
    /\ loc' = [loc EXCEPT ![p] = NoLoc]
    /\ ret' = [ret EXCEPT ![p] = ""]
    /\ base' = IF Quiescent
               THEN [portfolios |-> portfolios, holdings |-> holdings,
                     transactions |-> transactions, now |-> now]
               ELSE base
    /\ batch' = IF Quiescent THEN <<r>> ELSE Append(batch, r)
    /\ UNCHANGED <<store, elsewhere>>

\* repo.create_portfolio(user_id, name)
create_portfolio_call(p, u, name) ==
    Begin(p, [NoReq EXCEPT !.op = "CREATE", !.user_id = u, !.name = name],
          "create_insert")

\* repo.get_or_create_portfolio(user_id, name)
get_or_create_portfolio(p, u, name) ==
    Begin(p, [NoReq EXCEPT !.op = "GET_OR_CREATE", !.user_id = u,
                           !.name = name],
          "get_or_create_get")

\* get_or_create_portfolio: portfolio = get_portfolio(user_id);
\* if portfolio: return portfolio
GetOrCreateGet(p) ==
    /\ pc[p] = "get_or_create_get"
    /\ LET id == get_portfolio(portfolios, req[p].user_id)
       IN  IF id # 0
           THEN /\ loc' = [loc EXCEPT ![p].portfolio = id,
                                      ![p].name = portfolios[id].name]
                /\ pc' = [pc EXCEPT ![p] = "done"]
                /\ ret' = [ret EXCEPT ![p] = "Portfolio"]
           ELSE /\ pc' = [pc EXCEPT ![p] = "create_insert"]
                /\ UNCHANGED <<loc, ret>>
    /\ UNCHANGED <<store, req, started, base, batch, elsewhere>>

\* create_portfolio: INSERT and commit, return Portfolio(lastrowid, name);
\* IntegrityError leads to the refetch
CreateInsert(p) ==
    /\ pc[p] = "create_insert"
    /\ IF DuplicateOwner(portfolios, req[p].user_id)
       THEN /\ pc' = [pc EXCEPT ![p] = "create_refetch"]
            /\ UNCHANGED <<portfolios, loc, ret>>
       ELSE /\ portfolios' = create_portfolio(portfolios, req[p].user_id,
                                              req[p].name)
            /\ loc' = [loc EXCEPT ![p].portfolio = Len(portfolios) + 1,
                                  ![p].name = req[p].name]
            /\ pc' = [pc EXCEPT ![p] = "done"]
            /\ ret' = [ret EXCEPT ![p] = "Portfolio"]
    /\ UNCHANGED <<holdings, transactions, req, started, base, batch, elsewhere>>

\* create_portfolio, except IntegrityError: return get_portfolio(user_id)
CreateRefetch(p) ==
    /\ pc[p] = "create_refetch"
    /\ LET id == get_portfolio(portfolios, req[p].user_id)
       IN  loc' = [loc EXCEPT ![p].portfolio = id,
                              ![p].name = portfolios[id].name]
    /\ pc' = [pc EXCEPT ![p] = "done"]
    /\ ret' = [ret EXCEPT ![p] = "Portfolio"]
    /\ UNCHANGED <<store, req, started, base, batch, elsewhere>>

(* ------------------------------------------------------------------ *)
(* history_command and PortfolioService.get_transactions               *)
(* ------------------------------------------------------------------ *)

DEFAULT_LIMIT == 10

MAX_LIMIT == 50

\* history_command passing the requested limit on as it is
HistoryLimit_Uncapped(args) ==
    IF args = <<>> THEN DEFAULT_LIMIT ELSE args[1]

\* history_command: the limit handed to get_transactions
HistoryLimit(args) ==
    IF args = <<>> THEN DEFAULT_LIMIT
    ELSE IF args[1] > MAX_LIMIT THEN MAX_LIMIT ELSE args[1]

\* history_command: parse the optional limit; limit <= 0 gets the
\* "Invalid limit" reply
history_command(p, u, args) ==
    LET r == [NoReq EXCEPT !.op = "HISTORY", !.user_id = u, !.args = args]
    IN  IF args # <<>> /\ args[1] <= 0
        THEN Refuse(p, r, "Invalid")
        ELSE Begin(p, r, "history_get_portfolio")

\* get_transactions: portfolio = get_portfolio(user_id);
\* if not portfolio: return []
HistoryGetPortfolio(p) ==
    /\ pc[p] = "history_get_portfolio"
    /\ LET id == get_portfolio(portfolios, req[p].user_id)
       IN  /\ loc' = [loc EXCEPT ![p].portfolio = id]
           /\ pc' = [pc EXCEPT ![p] = IF id # 0
                                      THEN "history_get_transactions"
                                      ELSE "done"]
           /\ ret' = [ret EXCEPT ![p] = IF id # 0 THEN "" ELSE "List"]
    /\ UNCHANGED <<store, req, started, base, batch, elsewhere>>

\* get_transactions: return get_all_transactions(portfolio.id, limit)
HistoryGetTransactions(p) ==
    /\ pc[p] = "history_get_transactions"
    /\ \E rows \in get_all_transactions(transactions, holdings,
                                        loc[p].portfolio,
                                        HistoryLimit(req[p].args)) :
          loc' = [loc EXCEPT ![p].listed = rows]
    /\ pc' = [pc EXCEPT ![p] = "done"]
    /\ ret' = [ret EXCEPT ![p] = "List"]
    /\ UNCHANGED <<store, req, started, base, batch, elsewhere>>

\* a second passes on the clock of the store
Tick ==
    /\ now < MaxNow
    /\ now' = now + 1
    /\ UNCHANGED <<store, pc, req, loc, ret, started, base, batch, fetch>>

\* the store after n buys of one share at 2.0, a second apart
RECURSIVE Ledger(_)
Ledger(n) ==
    IF n = 0
    THEN [portfolios |-> <<>>, holdings |-> <<>>, transactions |-> <<>>,
          now |-> 0]
    ELSE CHOOSE next \in
             {SerialBuy([st EXCEPT !.now = n],
                        [NoReq EXCEPT !.op = BUY, !.user_id = 1,
                                      !.arg = "AAPL", !.symbol = "AAPL",
                                      !.quantity = 10, !.price = 20]) :
                 st \in {Ledger(n - 1)}} : TRUE

(* ------------------------------------------------------------------ *)
(* YFinanceProvider.get_price and _fetch_ticker_info                   *)
(* ------------------------------------------------------------------ *)

\* one more attempt than the retry settings allow
MAX_RETRIES_Four == 3 + 1

MAX_RETRIES == 3

\* seconds
BASE_DELAY == 2

\* random.uniform(0, 1): its two ends
Jitters == {0, 1}

Responses ==
    {Response("rate_limit", FALSE, 0), Response("failure", FALSE, 0),
     Response("hang", FALSE, 0), Response("info", FALSE, 0),
     Response("info", FALSE, 1000), Response("info", TRUE, 0),
     Response("info", TRUE, 1000), Response("info", TRUE, 1010)}

\* what the provider will do with each attempt that can be made
Scripts == [1..MAX_RETRIES -> Responses]

\* ticker.info with and without the symbol key and each of the four price
\* fields (100.3, 100.1, 100.0 and 99.9 when present)
Payloads ==
    {Info(symbol, currentPrice, regularMarketPrice, previousClose,
          regularMarketPreviousClose) :
        symbol \in BOOLEAN, currentPrice \in {0, 1003},
        regularMarketPrice \in {0, 1001}, previousClose \in {0, 1000},
        regularMarketPreviousClose \in {0, 999}}

\* the provider returns one info on every attempt, or raises a rate limit
\* on the first attempt and returns one info on the others
QuoteScripts ==
    {[i \in 1..MAX_RETRIES |-> IF i = 1 THEN first ELSE info] :
        first \in {Response("rate_limit", FALSE, 0)}, info \in Payloads}
    \cup {[i \in 1..MAX_RETRIES |-> info] : info \in Payloads}

\* every provider exception read as a rate limit
RateLimited_Any(resp) == resp.kind \in {"rate_limit", "failure"}

\* "429" in str(e) or "too many requests" in error_str
RateLimited(resp) == resp.kind = "rate_limit"

\* a sleep after every rate limit, the last one too
ShouldRetry_Always(attempt) == TRUE

\* no retry after a rate limit
ShouldRetry_Never(attempt) == FALSE

\* attempt < MAX_RETRIES - 1
ShouldRetry(attempt) == attempt < MAX_RETRIES - 1

\* the same delay after every attempt
Delay_Flat(attempt, jitter) == BASE_DELAY + jitter

\* delay = BASE_DELAY * (2 ** attempt) + random.uniform(0, 1)
Delay(attempt, jitter) == BASE_DELAY * (2 ^ attempt) + jitter

Event(event, n) == [event |-> event, n |-> n]

\* the quote client at the start of a call
Calling(call, sym, script) ==
    [NoFetch EXCEPT !.pc = "attempt", !.call = call, !.symbol = sym,
                    !.script = script]

\* a call of the quote client starts: the loop of _fetch_ticker_info.
\* Every call starts from fresh locals, so one call is followed from the
\* idle client.
Call(call, sym, script) ==
    /\ fetch.pc = "idle"
    /\ fetch' = Calling(call, sym, script)
    /\ UNCHANGED <<store, pc, req, loc, ret, started, base, batch, now>>

\* get_price(symbol) is called
get_price(sym, script) == Call("get_price", sym, script)

\* get_info(symbol) is called
get_info(sym, script) == Call("get_info", sym, script)

\* health_check() is called: result = await self.get_price("AAPL")
health_check(script) == Call("health_check", "AAPL", script)

\* for attempt in range(MAX_RETRIES): the calls handed to the executor
FetchAttempt ==
    /\ fetch.pc = "attempt"
    /\ fetch.attempt < MAX_RETRIES
    /\ fetch' = [fetch EXCEPT !.pc = "waiting",
                              !.log = Append(@, Event("attempt",
                                                      fetch.attempt))]
    /\ UNCHANGED <<store, pc, req, loc, ret, started, base, batch, now>>

\* every exception passed on as it is
Wrap_Reraises(error) == error

\* except SymbolNotFoundError: raise
\* except Exception as e: raise DataFetchError(self.name, str(e))
Wrap(error) ==
    IF error = "SymbolNotFoundError" THEN error ELSE "DataFetchError"

\* an info is taken for the symbol whatever it carries
MissingSymbol_Never(info) == FALSE

\* not info or "symbol" not in info
MissingSymbol(info) == ~info.symbol

\* the second field first
PyOr_Second(x, y) == IF y # 0 THEN y ELSE x

\* x or y
PyOr(x, y) == IF x # 0 THEN x ELSE y

\* an info without a price taken for an unknown symbol
NoPriceError_NotFound == "SymbolNotFoundError"

\* if not current_price: raise DataFetchError(...)
NoPriceError == "DataFetchError"

\* the call f ends with the exception raised inside the try block
Raise(f, info, error) ==
    [f EXCEPT !.pc = "raised", !.info = info, !.error = Wrap(error)]

\* get_price on the info _fetch_ticker_info returned: SymbolNotFoundError
\* without the symbol key, DataFetchError without a price, else StockPrice
GetPriceOutcome(f, info) ==
    LET current_price == PyOr(info.currentPrice, info.regularMarketPrice)
        previous_close == PyOr(info.previousClose,
                               info.regularMarketPreviousClose)
        change == IF previous_close # 0
                  THEN FSub(DecimalToFloat(current_price),
                            DecimalToFloat(previous_close))
                  ELSE FZero
    IN  IF MissingSymbol(info)
        THEN Raise(f, info, "SymbolNotFoundError")
        ELSE IF current_price = 0
        THEN Raise(f, info, NoPriceError)
        ELSE [f EXCEPT !.pc = "returned", !.info = info,
                       !.price = DecimalToFloat(current_price),
                       !.change = change,
                       !.change_percent =
                           IF previous_close # 0
                           THEN FMul(FDiv(change,
                                          DecimalToFloat(previous_close)),
                                     IntToFloat(100))
                           ELSE FZero]

\* get_info on the info _fetch_ticker_info returned: SymbolNotFoundError
\* without the symbol key, else StockInfo
GetInfoOutcome(f, info) ==
    IF MissingSymbol(info)
    THEN Raise(f, info, "SymbolNotFoundError")
    ELSE [f EXCEPT !.pc = "returned", !.info = info]

\* the executor call returns or raises: return info; or, rate limited and
\* attempts remain, asyncio.sleep(delay); or raise, which get_price and
\* get_info turn into DataFetchError.  A call that never responds leaves
\* the coroutine suspended.
ProviderResponds ==
    /\ fetch.pc = "waiting"
    /\ LET resp == fetch.script[fetch.attempt + 1]
       IN  /\ resp.kind # "hang"
           /\ IF resp.kind = "info"
              THEN fetch' = IF fetch.call = "get_info"
                            THEN GetInfoOutcome(fetch, resp)
                            ELSE GetPriceOutcome(fetch, resp)
              ELSE IF RateLimited(resp) /\ ShouldRetry(fetch.attempt)
              THEN \E jitter \in Jitters :
                      fetch' = [fetch EXCEPT
                                   !.pc = "sleeping",
                                   !.log = Append(@,
                                       Event("sleep",
                                             Delay(fetch.attempt, jitter)))]
              ELSE fetch' = Raise(fetch, NoResponse, "ProviderError")
    /\ UNCHANGED <<store, pc, req, loc, ret, started, base, batch, now>>

\* asyncio.sleep(delay) is over: continue with the next attempt
SleepDone ==
    /\ fetch.pc = "sleeping"
    /\ fetch' = [fetch EXCEPT !.pc = "attempt", !.attempt = @ + 1]
    /\ UNCHANGED <<store, pc, req, loc, ret, started, base, batch, now>>

\* health_check reporting a healthy provider whatever get_price did
Healthy_Always(f) == TRUE

\* return result is not None; except Exception: return False
Healthy(f) == f.pc = "returned"

\* health_check returns once its get_price call has returned or raised
HealthCheckReturn ==
    /\ fetch.call = "health_check"
    /\ fetch.pc \in {"returned", "raised"}
    /\ fetch' = [fetch EXCEPT !.pc = "checked", !.healthy = Healthy(fetch)]
    /\ UNCHANGED <<store, pc, req, loc, ret, started, base, batch, now>>

(* ------------------------------------------------------------------ *)
(* analyze_command and format_analysis_message                         *)
(* ------------------------------------------------------------------ *)

\* if info.dividend_yield: None, 0 and 0.0 are falsy
HasYield(y) == y.present /\ y.n # 0

\* the literal 0.15
YieldThreshold == FDiv(IntToFloat(15), IntToFloat(100))

\* every yield taken for a fraction
YieldValue_AlwaysFraction(d) == FMul(d, IntToFloat(100))

\* info.dividend_yield * 100 if info.dividend_yield < 0.15
\* else info.dividend_yield
YieldValue(d) ==
    IF FCmp(d, YieldThreshold) < 0 THEN FMul(d, IntToFloat(100)) ELSE d

\* format_analysis_message: div_yield
DividendDisplay(y) ==
    IF HasYield(y)
    THEN Percent(Format2f(YieldValue(YieldToFloat(y.n))))
    ELSE NotAvailable

\* what provider.get_price and provider.get_info hand to analyze_command:
\* one of the two exceptions of the quote client, or a StockPrice and a
\* StockInfo with any dividend yield
AnalysisResults ==
    {[error |-> e, dividend_yield |-> NoYield] :
        e \in {"SymbolNotFoundError", "DataFetchError"}}
    \cup {[error |-> "", dividend_yield |-> y] : y \in Yields}

\* analyze_command: without arguments it replies with the usage text,
\* else it awaits the provider
analyze_command(p, u, args) ==
    LET r == [NoReq EXCEPT !.op = "ANALYZE", !.user_id = u, !.args = args,
                           !.symbol = IF args = <<>> THEN ""
                                      ELSE Upper(args[1])]
    IN  IF args = <<>> THEN Refuse(p, r, "Usage")
        ELSE Begin(p, r, "analyze_fetch")

\* price = await provider.get_price(symbol); info = await
\* provider.get_info(symbol); message = format_analysis_message(price,
\* info); or the reply of the except clause
AnalyzeReply(p) ==
    /\ pc[p] = "analyze_fetch"
    /\ \E r \in AnalysisResults :
          IF r.error # ""
          THEN /\ ret' = [ret EXCEPT ![p] = r.error]
               /\ loc' = loc
          ELSE /\ ret' = [ret EXCEPT ![p] = "Message"]
               /\ loc' = [loc EXCEPT
                             ![p].dividend_yield = r.dividend_yield,
                             ![p].div_yield =
                                 DividendDisplay(r.dividend_yield)]
    /\ pc' = [pc EXCEPT ![p] = "done"]
    /\ UNCHANGED <<store, req, started, base, batch, elsewhere>>

(* ------------------------------------------------------------------ *)
(* Store faults in add_holding and sell_holding                        *)
(* ------------------------------------------------------------------ *)

\* the store accesses of add_holding and sell_holding
StoreSteps ==
    {"buy_get_portfolio", "buy_create_portfolio", "buy_get_holding",
     "buy_write", "buy_record", "sell_get_portfolio", "sell_get_holding",
     "sell_write", "sell_record"}

\* a failed store access passed over: the call returns its Holding
Raised_Swallowed(step, closes) == "Holding"

\* what the caller of the service gets when the store access of a step
\* raises aiosqlite.Error: DatabaseError from the methods that catch it
\* (create_portfolio, add_holding, update_holding, record_transaction),
\* the error itself from those that do not (get_portfolio,
\* get_holding_by_symbol and remove_holding called by sell_holding)
Raised(step, closes) ==
    IF \/ step \in {"buy_get_portfolio", "sell_get_portfolio",
                     "sell_get_holding"}
       \/ step = "sell_write" /\ closes
    THEN "Error"
    ELSE "DatabaseError"

\* the store access handler p is about to make fails: nothing is
\* committed (every method works on a connection of its own, closed on
\* the way out) and the exception leaves the service
Fault(p) ==
    /\ pc[p] \in StoreSteps
    /\ pc' = [pc EXCEPT ![p] = "done"]
    /\ ret' = [ret EXCEPT ![p] =
                  Raised(pc[p], /\ pc[p] = "sell_write"
                                /\ SellCloses(loc[p].existing, qty(p)))]
    /\ loc' = [loc EXCEPT ![p].failed = pc[p]]
    /\ UNCHANGED <<store, req, started, base, batch, elsewhere>>

(* ------------------------------------------------------------------ *)
(* PortfolioService.get_holdings, one action per store access          *)
(* ------------------------------------------------------------------ *)

\* service.get_holdings(user_id)
get_holdings_call(p, u) ==
    Begin(p, [NoReq EXCEPT !.op = "HOLDINGS", !.user_id = u],
          "holdings_get_portfolio")

\* portfolio = get_portfolio(user_id); if not portfolio: return []
HoldingsGetPortfolio(p) ==
    /\ pc[p] = "holdings_get_portfolio"
    /\ LET id == get_portfolio(portfolios, req[p].user_id)
       IN  /\ loc' = [loc EXCEPT ![p].portfolio = id]
           /\ pc' = [pc EXCEPT ![p] = IF id # 0 THEN "holdings_get_holdings"
                                      ELSE "done"]
           /\ ret' = [ret EXCEPT ![p] = IF id # 0 THEN "" ELSE "Holdings"]
    /\ UNCHANGED <<store, req, started, base, batch, elsewhere>>

\* return get_holdings(portfolio.id)
HoldingsGetHoldings(p) ==
    /\ pc[p] = "holdings_get_holdings"
    /\ loc' = [loc EXCEPT ![p].positions =
                  get_holdings(holdings, loc[p].portfolio)]
    /\ pc' = [pc EXCEPT ![p] = "done"]
    /\ ret' = [ret EXCEPT ![p] = "Holdings"]
    /\ UNCHANGED <<store, req, started, base, batch, elsewhere>>

(* ------------------------------------------------------------------ *)
(* portfolio_command and fetch_current_prices, one action per await    *)
(* ------------------------------------------------------------------ *)

\* what the provider does with the get_price calls of a valuation: the
\* same on every attempt
ValuationResponses ==
    {Response("rate_limit", FALSE, 0), Response("failure", FALSE, 0),
     Response("info", FALSE, 0), Response("info", TRUE, 0),
     Response("info", TRUE, 1000), Response("info", TRUE, 1010)}

ValuationScripts ==
    {[i \in 1..MAX_RETRIES |-> resp] : resp \in ValuationResponses}

\* /portfolio
portfolio_command(p, u) ==
    Begin(p, [NoReq EXCEPT !.op = "PORTFOLIO", !.user_id = u],
          "portfolio_get_portfolio")

\* repo.get_or_create_portfolio(user_id): get_portfolio
PortfolioGetPortfolio(p) ==
    /\ pc[p] = "portfolio_get_portfolio"
    /\ LET id == get_portfolio(portfolios, req[p].user_id)
       IN  /\ loc' = [loc EXCEPT ![p].portfolio = id]
           /\ pc' = [pc EXCEPT ![p] = IF id # 0
                                      THEN "portfolio_get_holdings"
                                      ELSE "portfolio_create"]
    /\ UNCHANGED <<store, req, ret, started, base, batch, elsewhere>>

\* repo.get_or_create_portfolio(user_id): create_portfolio
PortfolioCreate(p) ==
    /\ pc[p] = "portfolio_create"
    /\ IF DuplicateOwner(portfolios, req[p].user_id)
       THEN /\ pc' = [pc EXCEPT ![p] = "portfolio_refetch"]
            /\ UNCHANGED <<portfolios, loc>>
       ELSE /\ portfolios' = create_portfolio(portfolios, req[p].user_id,
                                              DefaultName)
            /\ loc' = [loc EXCEPT ![p].portfolio = Len(portfolios) + 1]
            /\ pc' = [pc EXCEPT ![p] = "portfolio_get_holdings"]
    /\ UNCHANGED <<holdings, transactions, req, ret, started, base, batch,
                   elsewhere>>

\* create_portfolio, except IntegrityError: return get_portfolio(user_id)
PortfolioRefetch(p) ==
    /\ pc[p] = "portfolio_refetch"
    /\ loc' = [loc EXCEPT ![p].portfolio =
                  get_portfolio(portfolios, req[p].user_id)]
    /\ pc' = [pc EXCEPT ![p] = "portfolio_get_holdings"]
    /\ UNCHANGED <<store, req, ret, started, base, batch, elsewhere>>

\* holdings = repo.get_holdings(portfolio.id); if not holdings: reply
\* that the portfolio is empty
PortfolioGetHoldings(p) ==
    /\ pc[p] = "portfolio_get_holdings"
    /\ LET hs == get_holdings(holdings, loc[p].portfolio)
       IN  /\ loc' = [loc EXCEPT ![p].positions = hs]
           /\ pc' = [pc EXCEPT ![p] = IF hs = <<>> THEN "done"
                                      ELSE "portfolio_fetch"]
           /\ ret' = [ret EXCEPT ![p] = IF hs = <<>> THEN "Empty" ELSE ""]
    /\ UNCHANGED <<store, req, started, base, batch, elsewhere>>

\* fetch_current_prices: for holding in holdings:
\* price_data = await provider.get_price(holding.symbol)
PortfolioFetch(p) ==
    /\ pc[p] = "portfolio_fetch"
    /\ fetch.pc = "idle"
    /\ \E script \in ValuationScripts :
          /\ fetch' = Calling("get_price",
                              loc[p].positions[Len(loc[p].results) + 1].symbol,
                              script)
          /\ loc' = [loc EXCEPT ![p].scripts = Append(@, script)]
    /\ pc' = [pc EXCEPT ![p] = "portfolio_await"]
    /\ UNCHANGED <<store, req, ret, started, base, batch, now>>

\* the price paired with a holding whose quote could not be fetched: 0
FallbackPrice_Zero(holding) == FZero

\* results.append((holding, holding.avg_cost))
FallbackPrice(holding) == holding.avg_cost

\* fetch_current_prices: results.append((holding, price_data.price)), or
\* (holding, holding.avg_cost) on SymbolNotFoundError and DataFetchError;
\* any other exception ends portfolio_command with the error reply.  After
\* the last holding the message is formatted and sent.
PortfolioFetched(p) ==
    /\ pc[p] = "portfolio_await"
    /\ fetch.pc \in {"returned", "raised"}
    /\ LET holding == loc[p].positions[Len(loc[p].results) + 1]
           caught == fetch.error \in {"SymbolNotFoundError",
                                      "DataFetchError"}
           pair == [holding |-> holding,
                    price |-> IF fetch.pc = "returned" THEN fetch.price
                              ELSE FallbackPrice(holding)]
       IN  IF fetch.pc = "raised" /\ ~caught
           THEN /\ pc' = [pc EXCEPT ![p] = "done"]
                /\ ret' = [ret EXCEPT ![p] = "Error"]
                /\ loc' = loc
           ELSE /\ loc' = [loc EXCEPT ![p].results = Append(@, pair)]
                /\ pc' = [pc EXCEPT ![p] =
                             IF Len(loc[p].results) + 1
                                    = Len(loc[p].positions)
                             THEN "done" ELSE "portfolio_fetch"]
                /\ ret' = [ret EXCEPT ![p] =
                              IF Len(loc[p].results) + 1
                                     = Len(loc[p].positions)
                              THEN "Message" ELSE ""]
    /\ fetch' = NoFetch
    /\ UNCHANGED <<store, req, started, base, batch, now>>

(* ------------------------------------------------------------------ *)
(* Specifications                                                      *)
(* ------------------------------------------------------------------ *)

\* one step of the add_holding call handler p is in
BuyStep(p) ==
    \/ BuyGetPortfolio(p)
    \/ BuyCreatePortfolio(p)
    \/ BuyGetHolding(p)
    \/ BuyWrite(p)
    \/ BuyRecord(p)

\* one step of the sell_holding call handler p is in
SellStep(p) ==
    \/ SellGetPortfolio(p)
    \/ SellGetHolding(p)
    \/ SellWriteStep(p)
    \/ SellRecord(p)

\* the handler that serves the next command: the first one that is free
\* (handlers are interchangeable)
FirstFree(p) ==
    /\ pc[p] \in {"idle", "done"}
    /\ \A p2 \in Procs : p2 < p => pc[p2] \notin {"idle", "done"}

\* handlers run concurrently on the event loop and interleave at awaits
Concurrent(Q, P) ==
    \/ \E p \in Procs, u \in Users, sym \in Symbols, q \in Q, pr \in P :
          \/ FirstFree(p) /\ add_command(p, u, sym, q, pr)
          \/ FirstFree(p) /\ sell_command(p, u, sym, q, pr)
    \/ \E p \in Procs : BuyStep(p) \/ BuyRefetchPortfolio(p) \/ SellStep(p)

Next == Concurrent(ConcQuantities, ConcPrices)

Spec == Init /\ [][Next]_vars

\* overlapping calls for two owners: create_portfolio under either name,
\* get_or_create_portfolio as portfolio_command calls it, and buys
NextAccounts ==
    \/ \E p \in Procs, u \in AccountUsers, name \in Names :
          FirstFree(p) /\ create_portfolio_call(p, u, name)
    \/ \E p \in Procs, u \in AccountUsers :
          FirstFree(p) /\ get_or_create_portfolio(p, u, DefaultName)
    \/ \E p \in Procs, u \in AccountUsers, sym \in Symbols,
             q \in AccountQuantities, pr \in ConcPrices :
          FirstFree(p) /\ add_command(p, u, sym, q, pr)
    \/ \E p \in Procs :
          \/ GetOrCreateGet(p)
          \/ CreateInsert(p)
          \/ CreateRefetch(p)
          \/ BuyStep(p)
          \/ BuyRefetchPortfolio(p)

SpecAccounts == Init /\ [][NextAccounts]_vars

\* overlapping buys and sells of one share of a ticker typed in either case
NextCase ==
    \/ \E p \in Procs, u \in Users, sym \in CaseSymbols,
             q \in AccountQuantities, pr \in ConcPrices :
          \/ FirstFree(p) /\ add_command(p, u, sym, q, pr)
          \/ FirstFree(p) /\ sell_command(p, u, sym, q, pr)
    \/ \E p \in Procs : BuyStep(p) \/ BuyRefetchPortfolio(p) \/ SellStep(p)

SpecCase == Init /\ [][NextCase]_vars

\* buys and /history, one at a time, while the clock runs
NextHistory ==
    \/ \E u \in Users, sym \in Symbols, q \in AccountQuantities,
             pr \in ConcPrices :
          Quiescent /\ add_command(1, u, sym, q, pr)
    \/ \E u \in Users, args \in HistoryArgs :
          Quiescent /\ history_command(1, u, args)
    \/ \E p \in Procs :
          \/ BuyStep(p)
          \/ HistoryGetPortfolio(p)
          \/ HistoryGetTransactions(p)
    \/ Tick

SpecHistory == Init /\ [][NextHistory]_vars

\* /history on a store that holds up to MaxLedger ledger entries
InitLimit ==
    /\ \E n \in 0..MaxLedger :
          \E st \in {Ledger(n)} :
             /\ portfolios = st.portfolios
             /\ holdings = st.holdings
             /\ transactions = st.transactions
             /\ now = n
             /\ base = st
    /\ pc = [p \in Procs |-> "idle"]
    /\ req = [p \in Procs |-> NoReq]
    /\ loc = [p \in Procs |-> NoLoc]
    /\ ret = [p \in Procs |-> ""]
    /\ started = 0
    /\ batch = <<>>
    /\ fetch = NoFetch

NextLimit ==
    \/ \E u \in AccountUsers, args \in LimitArgs :
          Quiescent /\ history_command(1, u, args)
    \/ \E p \in Procs : HistoryGetPortfolio(p) \/ HistoryGetTransactions(p)

SpecLimit == InitLimit /\ [][NextLimit]_vars

\* /add and /sell with well-formed and malformed arguments, one at a time
NextValidate ==
    \/ \E u \in Users, sym \in ValidateSymbols, q \in ValidateQuantities,
             pr \in ValidatePrices :
          \/ Quiescent /\ add_command(1, u, sym, q, pr)
          \/ Quiescent /\ sell_command(1, u, sym, q, pr)
    \/ \E p \in Procs : BuyStep(p) \/ SellStep(p)

SpecValidate == Init /\ [][NextValidate]_vars

\* calls of the quote client, one at a time, against every provider
\* behaviour.  The event loop resumes a coroutine whose executor call or
\* sleep is over.
NextFetch ==
    \/ \E sym \in Symbols, script \in Scripts :
          \/ get_price(sym, script)
          \/ get_info(sym, script)
          \/ health_check(script)
    \/ FetchAttempt
    \/ ProviderResponds
    \/ SleepDone
    \/ HealthCheckReturn

SpecFetch ==
    /\ Init
    /\ [][NextFetch]_vars
    /\ WF_vars(FetchAttempt)
    /\ WF_vars(ProviderResponds)
    /\ WF_vars(SleepDone)
    /\ WF_vars(HealthCheckReturn)

\* calls of the quote client, one at a time, against every shape of
\* ticker.info
NextQuote ==
    \/ \E sym \in Symbols, script \in QuoteScripts :
          \/ get_price(sym, script)
          \/ get_info(sym, script)
          \/ health_check(script)
    \/ FetchAttempt
    \/ ProviderResponds
    \/ SleepDone
    \/ HealthCheckReturn

SpecQuote == Init /\ [][NextQuote]_vars

\* buys and sells of one share of two tickers by two owners, and the
\* requests that read: get_holdings, /portfolio and /history, one at a
\* time
NextViews ==
    \/ \E u \in AccountUsers, sym \in ViewSymbols, q \in AccountQuantities,
             pr \in ConcPrices :
          \/ Quiescent /\ add_command(1, u, sym, q, pr)
          \/ Quiescent /\ sell_command(1, u, sym, q, pr)
    \/ \E u \in AccountUsers :
          \/ Quiescent /\ get_holdings_call(1, u)
          \/ Quiescent /\ portfolio_command(1, u)
          \/ Quiescent /\ history_command(1, u, <<>>)
    \/ \E p \in Procs :
          \/ BuyStep(p)
          \/ SellStep(p)
          \/ HoldingsGetPortfolio(p)
          \/ HoldingsGetHoldings(p)
          \/ PortfolioGetPortfolio(p)
          \/ PortfolioCreate(p)
          \/ PortfolioGetHoldings(p)
          \/ PortfolioFetch(p)
          \/ PortfolioFetched(p)
          \/ HistoryGetPortfolio(p)
          \/ HistoryGetTransactions(p)
    \/ FetchAttempt
    \/ ProviderResponds
    \/ SleepDone

SpecViews == Init /\ [][NextViews]_vars

\* buys and sells, one at a time, on a store whose every access can fail
NextFaults ==
    \/ \E u \in Users, sym \in Symbols, q \in ConcQuantities,
             pr \in ConcPrices :
          \/ Quiescent /\ add_command(1, u, sym, q, pr)
          \/ Quiescent /\ sell_command(1, u, sym, q, pr)
    \/ \E p \in Procs : BuyStep(p) \/ SellStep(p) \/ Fault(p)

SpecFaults == Init /\ [][NextFaults]_vars

\* overlapping buys and sells of one share: two tickers of one owner, and
\* one of the two tickers of another owner
NextFrame ==
    \/ \E p \in Procs, a \in FramePositions, q \in AccountQuantities,
             pr \in ConcPrices :
          \/ FirstFree(p) /\ add_command(p, a[1], a[2], q, pr)
          \/ FirstFree(p) /\ sell_command(p, a[1], a[2], q, pr)
    \/ \E p \in Procs : BuyStep(p) \/ BuyRefetchPortfolio(p) \/ SellStep(p)

SpecFrame == Init /\ [][NextFrame]_vars

\* /analyze, one at a time, on every StockInfo
NextAnalysis ==
    \/ \E u \in Users, args \in AnalyzeArgs :
          Quiescent /\ analyze_command(1, u, args)
    \/ \E p \in Procs : AnalyzeReply(p)

SpecAnalysis == Init /\ [][NextAnalysis]_vars

\* the store after two buys of one share of AAPL at 2.0
InitHeld ==
    /\ \E st \in {Ledger(2)} :
          /\ portfolios = st.portfolios
          /\ holdings = st.holdings
          /\ transactions = st.transactions
          /\ now = st.now
          /\ base = st
    /\ pc = [p \in Procs |-> "idle"]
    /\ req = [p \in Procs |-> NoReq]
    /\ loc = [p \in Procs |-> NoLoc]
    /\ ret = [p \in Procs |-> ""]
    /\ started = 0
    /\ batch = <<>>
    /\ fetch = NoFetch

\* overlapping buys and sells of one share at 5.0, on a Position bought at
\* 2.0
NextHeld ==
    \/ \E p \in Procs, u \in Users, sym \in Symbols,
             q \in AccountQuantities, pr \in HeldPrices :
          \/ FirstFree(p) /\ add_command(p, u, sym, q, pr)
          \/ FirstFree(p) /\ sell_command(p, u, sym, q, pr)
    \/ \E p \in Procs :
          \/ BuyGetPortfolio(p)
          \/ BuyGetHolding(p)
          \/ BuyWrite(p)
          \/ BuyRecord(p)
          \/ SellStep(p)

SpecHeld == InitHeld /\ [][NextHeld]_vars

\* buys and sells of the whole Position, one at a time
NextReopen ==
    \/ \E u \in Users, sym \in Symbols, q \in ReopenQuantities,
             pr \in ReopenPrices :
          \/ Quiescent /\ add_command(1, u, sym, q, pr)
          \/ Quiescent /\ sell_command(1, u, sym, q, pr)
    \/ \E p \in Procs : BuyStep(p) \/ SellStep(p)

SpecReopen == Init /\ [][NextReopen]_vars

\* one command at a time: each runs to completion before the next starts
NextSeq ==
    \/ \E u \in Users, sym \in Symbols, q \in SeqQuantities, pr \in SeqPrices :
          \/ Quiescent /\ add_command(1, u, sym, q, pr)
          \/ Quiescent /\ sell_command(1, u, sym, q, pr)
    \/ \E p \in Procs : BuyStep(p) \/ SellStep(p)

SpecSeq == Init /\ [][NextSeq]_vars

\* buys only, one at a time
NextBuys ==
    \/ \E u \in Users, sym \in Symbols, q \in BuyQuantities, pr \in BuyPrices :
          Quiescent /\ add_command(1, u, sym, q, pr)
    \/ \E p \in Procs : BuyStep(p)

SpecBuys == Init /\ [][NextBuys]_vars

(* ------------------------------------------------------------------ *)
(* Properties                                                          *)
(* ------------------------------------------------------------------ *)

\* the Decimal a stored float came from
DecimalOf(f) ==
    CHOOSE n \in BuyQuantities \cup BuyPrices \cup SeqQuantities
                 \cup SeqPrices \cup ConcQuantities \cup ConcPrices :
        DecimalToFloat(n) = f

\* the ledger entries of holding h, in creation order
EntriesOf(ts, h) == SelectSeq(ts, LAMBDA t : t.holding_id = h)

\* exact sum of the quantities of the entries es of kind type, in tenths
RECURSIVE ExactQuantity(_, _)
ExactQuantity(es, type) ==
    IF es = <<>> THEN 0
    ELSE (IF es[1].transaction_type = type THEN DecimalOf(es[1].quantity)
          ELSE 0)
         + ExactQuantity(Tail(es), type)

\* exact sum of quantity * price of the entries es, in hundredths
RECURSIVE ExactCost(_)
ExactCost(es) ==
    IF es = <<>> THEN 0
    ELSE DecimalOf(es[1].quantity) * DecimalOf(es[1].price)
         + ExactCost(Tail(es))

\* float sum, in ledger order, of the quantities of the entries of kind
\* type in es, starting from acc
RECURSIVE Total(_, _, _)
Total(es, type, acc) ==
    IF es = <<>> THEN acc
    ELSE Total(Tail(es), type,
               IF es[1].transaction_type = type
               THEN FAdd(acc, es[1].quantity) ELSE acc)

\* float sum, in ledger order, of quantity * price of the entries es
RECURSIVE TotalCost(_, _)
TotalCost(es, acc) ==
    IF es = <<>> THEN acc
    ELSE TotalCost(Tail(es), FAdd(acc, FMul(es[1].quantity, es[1].price)))

OnlyBuys(es) == \A i \in 1..Len(es) : es[i].transaction_type = BUY

\* the command handler p has returned from
Returned(p, op) == pc[p] = "done" /\ req[p].op = op

\* the Position the command of handler p addresses, in holdings table hs
\* of a store with portfolios table pf (None when there is none)
PositionOf(pf, hs, p) ==
    get_holding_by_symbol(hs, get_portfolio(pf, req[p].user_id),
                          req[p].symbol)

Before(p) == PositionOf(base.portfolios, base.holdings, p)

After(p) == PositionOf(portfolios, holdings, p)

\* C1: after a run of buys on a fresh (account, symbol), one at a time and
\* with no sell, the stored quantity is the sum of the bought quantities
\* and the stored avg_cost is sum(quantity_i * price_i) / sum(quantity_i),
\* the sums taken exactly (and the result rounded once) or in floating
\* point.
C1_WeightedAverage ==
    \A h \in 1..Len(holdings) :
        LET es == EntriesOf(transactions, h)
        IN  (Quiescent /\ es # <<>> /\ OnlyBuys(es)) =>
                /\ \/ holdings[h].quantity =
                          DecimalToFloat(ExactQuantity(es, BUY))
                   \/ holdings[h].quantity = Total(es, BUY, FZero)
                /\ \/ holdings[h].avg_cost =
                          FDiv(IntToFloat(ExactCost(es)),
                               IntToFloat(10 * ExactQuantity(es, BUY)))
                   \/ holdings[h].avg_cost =
                          FDiv(TotalCost(es, FZero), Total(es, BUY, FZero))

\* C2: when two commands on the same (account, symbol) overlap and both
\* return without a store error, the holdings table they leave is one that
\* running the two one after the other, in some order, leaves.
C2_SerialEquivalent ==
    (/\ Quiescent
     /\ Len(batch) = 2
     /\ batch[1].user_id = batch[2].user_id
     /\ batch[1].symbol = batch[2].symbol
     /\ \A p \in Procs : ret[p] # "DatabaseError") =>
        \E st \in SerialOutcomes(base, batch, {1, 2}) : st.holdings = holdings

\* C3: an accepted sell that ran alone leaves the avg_cost of its Position
\* as it was and its quantity lower by the sold quantity.
C3_SellKeepsAvgCost ==
    \A p \in Procs :
        (Returned(p, SELL) /\ ret[p] = "Holding") =>
            /\ After(p).id = Before(p).id
            /\ After(p).avg_cost = Before(p).avg_cost
            /\ After(p).quantity = FSub(Before(p).quantity, qty(p))

\* a partial sell at a price other than the avg_cost has been accepted
C3_Witness ==
    \E p \in Procs :
        /\ Returned(p, SELL) /\ ret[p] = "Holding"
        /\ FCmp(qty(p), Before(p).quantity) < 0
        /\ Before(p).avg_cost # price(p)
        /\ Len(EntriesOf(base.transactions, Before(p).id)) >= 2

\* C4: a sell of more than the Position holds ends in ValueError
\* (InsufficientHoldings) and leaves the three tables as they were.
C4_OversellRejected ==
    \A p \in Procs :
        (/\ Returned(p, SELL)
         /\ Before(p).id # 0
         /\ FCmp(qty(p), Before(p).quantity) > 0) =>
            /\ ret[p] = "ValueError"
            /\ <<portfolios, holdings, transactions>> =
                   <<base.portfolios, base.holdings, base.transactions>>

\* a sell of more than a positive held quantity has been rejected
C4_Witness ==
    \E p \in Procs :
        /\ Returned(p, SELL)
        /\ Before(p).id # 0
        /\ FCmp(Before(p).quantity, FZero) > 0
        /\ FCmp(qty(p), Before(p).quantity) > 0
        /\ ret[p] = "ValueError"

\* C5: a sell returns None (not held) whenever the owner has no portfolio
\* or no Position with quantity > 0 for the symbol, a Position sold down
\* to 0 included.
C5_NotHeldSentinel ==
    \A p \in Procs :
        (/\ Returned(p, SELL)
         /\ \/ Before(p).id = 0
            \/ FCmp(Before(p).quantity, FZero) = 0) =>
            ret[p] = "None"

\* C6: a sell of exactly the held quantity is accepted; the holdings row
\* stays, with quantity 0, is not among the active holdings, and every
\* ledger entry of the row is in what get_transactions returns.
C6_ClosedPositionRetained ==
    \A p \in Procs :
        (/\ Returned(p, SELL)
         /\ Before(p).id # 0
         /\ FCmp(Before(p).quantity, FZero) > 0
         /\ FCmp(qty(p), Before(p).quantity) = 0) =>
            /\ ret[p] = "Holding"
            /\ After(p).id = Before(p).id
            /\ After(p).quantity = FZero
            /\ LET active == service_get_holdings(portfolios, holdings,
                                                  req[p].user_id)
               IN  \A i \in 1..Len(active) : active[i].id # Before(p).id
            /\ \A rows \in service_get_transactions(portfolios, holdings,
                               transactions, req[p].user_id, ServiceLimit) :
                   \A i \in 1..Len(transactions) :
                       transactions[i].holding_id = Before(p).id =>
                           \E k \in 1..Len(rows) : rows[k] = i

\* a Position built by two buys has been sold in full
C6_Witness ==
    \E p \in Procs :
        /\ Returned(p, SELL) /\ ret[p] = "Holding"
        /\ FCmp(Before(p).quantity, FZero) > 0
        /\ FCmp(qty(p), Before(p).quantity) = 0
        /\ Len(EntriesOf(transactions, Before(p).id)) >= 3

\* C7: cannot sell more than held: once the commands in flight have
\* returned, the SELL entries of a Position never add up to more than its
\* BUY entries, also after overlapping sells.
C7_NeverOversold ==
    Quiescent =>
        \A h \in 1..Len(holdings) :
            LET es == EntriesOf(transactions, h)
            IN  FCmp(Total(es, SELL, FZero), Total(es, BUY, FZero)) <= 0

\* C8: no stored quantity is ever negative, under every interleaving.
C8_QuantityNonNegative ==
    \A h \in 1..Len(holdings) : FCmp(holdings[h].quantity, FZero) >= 0

\* two overlapping commands have returned, one of them a sell that closed
\* the Position
C8_Witness ==
    /\ Quiescent
    /\ Len(batch) >= 2
    /\ \E p \in Procs : Returned(p, SELL) /\ ret[p] = "Holding"
    /\ \E h \in 1..Len(holdings) : holdings[h].quantity = FZero

\* quantity and avg_cost after applying the entries es in order, by the
\* buy rule (weighted average) and the sell rule (avg_cost kept)
RECURSIVE Replay(_, _)
Replay(pos, es) ==
    IF es = <<>> THEN pos
    ELSE LET t == es[1]
             q1 == FAdd(pos.quantity, t.quantity)
         IN  IF t.transaction_type = BUY
             THEN Replay([quantity |-> q1,
                          avg_cost |->
                              FDiv(FAdd(FMul(pos.quantity, pos.avg_cost),
                                        FMul(t.quantity, t.price)), q1)],
                         Tail(es))
             ELSE Replay([quantity |-> FSub(pos.quantity, t.quantity),
                          avg_cost |-> pos.avg_cost],
                         Tail(es))

\* C9: between commands that ran one at a time, each Position's quantity is
\* its BUY total minus its SELL total in the ledger (the totals taken
\* exactly, or in floating point), and replaying its ledger entries in
\* creation order gives its stored avg_cost.
C9_ProjectionOfLedger ==
    Quiescent =>
        \A h \in 1..Len(holdings) :
            LET es == EntriesOf(transactions, h)
            IN  /\ \/ holdings[h].quantity =
                          DecimalToFloat(ExactQuantity(es, BUY)
                                         - ExactQuantity(es, SELL))
                   \/ holdings[h].quantity =
                          FSub(Total(es, BUY, FZero), Total(es, SELL, FZero))
                /\ holdings[h].avg_cost =
                       Replay([quantity |-> FZero, avg_cost |-> FZero],
                              es).avg_cost

\* C10: the ledger only grows: a step keeps every entry written so far,
\* with its kind, quantity, price and holding, at its place.
C10_LedgerAppendOnly ==
    [][/\ Len(transactions') >= Len(transactions)
       /\ \A i \in 1..Len(transactions) : transactions'[i] = transactions[i]
      ]_vars

\* the ledger holds a BUY and a later SELL that closed the Position
C10_Witness ==
    /\ Len(transactions) >= 2
    /\ \E i \in 1..Len(transactions) : transactions[i].transaction_type = SELL
    /\ \E h \in 1..Len(holdings) : holdings[h].quantity = FZero

\* handler p returns from its call in this step
Finishes(p) == pc[p] # "done" /\ pc'[p] = "done"

\* C11: the step in which an accepted buy or sell returns adds exactly one
\* ledger entry, of the kind of the command, with the quantity and price
\* of the command and for the Position of its symbol; a command that ends
\* any other way adds none, and no other step touches the ledger.
C11_OneEntryPerOperation ==
    [][/\ \A p \in Procs :
             Finishes(p) =>
                 IF ret'[p] = "Holding"
                 THEN /\ transactions' # <<>>
                      /\ SubSeq(transactions', 1, Len(transactions') - 1)
                             = transactions
                      /\ LET t == transactions'[Len(transactions')]
                         IN  /\ t.transaction_type = req[p].op
                             /\ t.quantity = DecimalToFloat(req[p].quantity)
                             /\ t.price = DecimalToFloat(req[p].price)
                             /\ t.holding_id \in 1..Len(holdings')
                             /\ holdings'[t.holding_id].symbol = req[p].symbol
                             /\ holdings'[t.holding_id].portfolio_id =
                                    get_portfolio(portfolios', req[p].user_id)
                 ELSE transactions' = transactions
       /\ (\A p \in Procs : ~Finishes(p)) => transactions' = transactions
      ]_vars

\* a buy onto an existing Position has been accepted: the row's totals
\* differ from the quantity bought; a sell has been accepted too
C11_Witness ==
    /\ \E p \in Procs :
          /\ Returned(p, BUY) /\ ret[p] = "Holding"
          /\ loc[p].existing.id # 0
          /\ loc[p].holding.quantity # qty(p)
    /\ \E i \in 1..Len(transactions) : transactions[i].transaction_type = SELL

\* C12: no two portfolios rows have the same owner, whatever calls overlap;
\* a create_portfolio or get_or_create_portfolio call for an owner who has
\* a row returns that row, with its id and the name it was created with,
\* and leaves the table as it was.
C12_OneAccountPerOwner ==
    [][/\ \A i, j \in 1..Len(portfolios') :
             portfolios'[i].telegram_user_id = portfolios'[j].telegram_user_id
                 => i = j
       /\ \A p \in Procs :
             (Finishes(p) /\ ret'[p] = "Portfolio") =>
                 \A i \in 1..Len(portfolios) :
                     portfolios[i].telegram_user_id = req[p].user_id =>
                         /\ portfolios' = portfolios
                         /\ loc'[p].portfolio = i
                         /\ loc'[p].name = portfolios[i].name
      ]_vars

\* create_portfolio has been called under another name for an owner who
\* had a portfolio, while a call for the same owner was in flight
C12_Witness ==
    \E p \in Procs :
        /\ pc[p] = "done" /\ req[p].op = "CREATE" /\ ret[p] = "Portfolio"
        /\ loc[p].name # req[p].name
        /\ Len(batch) >= 2
        /\ \E i \in 1..Len(batch) :
              batch[i].user_id = req[p].user_id /\ batch[i] # req[p]

\* the ticker a typed symbol names, whatever its letter case
Ticker(sym) ==
    CASE sym \in {"AAPL", "aapl"} -> "AAPL"
      [] sym \in {"MSFT", "msft"} -> "MSFT"
      [] OTHER -> sym

\* C13: no two holdings rows of one portfolio are for the same ticker,
\* whatever commands overlap, and an accepted buy or sell acted on the row
\* of the ticker its symbol names, in whatever case it was typed.
C13_OnePositionPerSymbol ==
    /\ \A i, j \in 1..Len(holdings) :
          (/\ holdings[i].portfolio_id = holdings[j].portfolio_id
           /\ Ticker(holdings[i].symbol) = Ticker(holdings[j].symbol))
              => i = j
    /\ \A p \in Procs :
          (pc[p] = "done" /\ ret[p] = "Holding") =>
              /\ loc[p].holding.id \in 1..Len(holdings)
              /\ holdings[loc[p].holding.id].symbol = Ticker(req[p].arg)
              /\ holdings[loc[p].holding.id].portfolio_id =
                     get_portfolio(portfolios, req[p].user_id)

\* a sell typed in lower case has been accepted against the row bought in
\* upper case, after one of two overlapping first buys was refused
C13_Witness ==
    /\ Len(holdings) = 1
    /\ \E p \in Procs :
          /\ Returned(p, SELL) /\ ret[p] = "Holding"
          /\ req[p].arg # holdings[loc[p].holding.id].symbol
    /\ \E p \in Procs : ret[p] = "DatabaseError"

\* C14: /history lists ledger entries most recent first: of two listed
\* entries, the one created later (the higher row id) comes earlier, also
\* when both were written in the same second.
C14_MostRecentFirst ==
    \A p \in Procs :
        (pc[p] = "done" /\ req[p].op = "HISTORY" /\ ret[p] = "List") =>
            \A i, j \in 1..Len(loc[p].listed) :
                i < j => loc[p].listed[i] > loc[p].listed[j]

\* the limit a /history command asks for: its argument, 10 without one
Requested(args) == IF args = <<>> THEN 10 ELSE args[1]

\* C15: /history never lists more than min(limit, 50) entries, with
\* limit = 10 when none is given; a limit <= 0 gets the "Invalid limit"
\* reply and nothing is read from the store.
C15_ListBounded ==
    \A p \in Procs :
        (pc[p] = "done" /\ req[p].op = "HISTORY") =>
            IF Requested(req[p].args) <= 0
            THEN ret[p] = "Invalid" /\ loc[p] = NoLoc
            ELSE /\ ret[p] = "List"
                 /\ Len(loc[p].listed) <= Requested(req[p].args)
                 /\ Len(loc[p].listed) <= 50

\* /history 100 on a store with more than 50 ledger entries has listed 50
C15_Witness ==
    \E p \in Procs :
        /\ pc[p] = "done" /\ req[p].op = "HISTORY" /\ ret[p] = "List"
        /\ req[p].args = <<100>>
        /\ Len(transactions) > 50
        /\ Len(loc[p].listed) = 50

\* a command with a quantity <= 0, a price <= 0, or a symbol that has a
\* digit or more than ten letters
Malformed(r) ==
    \/ r.quantity <= 0
    \/ r.price <= 0
    \/ r.arg \in {"AAPL1", "ABCDEFGHIJK"}

\* C16: a /add or /sell that is malformed is answered by the handler: it
\* never enters a service call, nothing is read from the store, and the
\* three tables are as they were.
C16_MalformedRejected ==
    \A p \in Procs :
        (pc[p] # "idle" /\ req[p].op \in {BUY, SELL} /\ Malformed(req[p])) =>
            /\ pc[p] = "done"
            /\ ret[p] = "Invalid"
            /\ loc[p] = NoLoc
            /\ <<portfolios, holdings, transactions>> =
                   <<base.portfolios, base.holdings, base.transactions>>

\* a sell of 0 shares and a buy under a symbol with a digit are among the
\* commands refused on a store that holds a Position
C16_Witness ==
    /\ Len(holdings) > 0 /\ Len(transactions) > 0
    /\ \E p \in Procs :
          /\ pc[p] = "done" /\ ret[p] = "Invalid"
          /\ \/ req[p].op = SELL /\ req[p].quantity = 0
             \/ req[p].op = BUY /\ req[p].arg = "AAPL1"

\* the get_price call has returned or raised
Finished == fetch.pc \in {"returned", "raised"}

\* the number of provider attempts, and of sleeps, in a log
Attempts(log) == Len(SelectSeq(log, LAMBDA e : e.event = "attempt"))

Sleeps(log) == Len(SelectSeq(log, LAMBDA e : e.event = "sleep"))

\* the provider raises a rate limit on attempts 1..k-1 of the script
RateLimitedBefore(script, k) ==
    \A i \in 1..(k - 1) : script[i].kind = "rate_limit"

\* C17: when the provider raises a rate limit on attempts 1..k-1 and
\* returns info on attempt k, get_price works on the info of attempt k (and
\* returns its price when it has one), after k attempts with one sleep
\* between each two of them and none before the first.
C17_RetryThenSuccess ==
    \A k \in 1..3 :
        (/\ Finished
         /\ RateLimitedBefore(fetch.script, k)
         /\ fetch.script[k].kind = "info") =>
            /\ fetch.info = fetch.script[k]
            /\ (/\ fetch.script[k].symbol
                /\ fetch.script[k].currentPrice > 0
                /\ fetch.call # "get_info") =>
                   /\ fetch.pc = "returned"
                   /\ fetch.price =
                          DecimalToFloat(fetch.script[k].currentPrice)
            /\ Len(fetch.log) = 2 * k - 1
            /\ \A i \in 1..Len(fetch.log) :
                   fetch.log[i].event = IF i % 2 = 1 THEN "attempt" ELSE "sleep"

\* a call has returned the price of its third attempt after two rate
\* limits and two sleeps
C17_Witness ==
    /\ fetch.pc = "returned"
    /\ RateLimitedBefore(fetch.script, 3)
    /\ fetch.call = "get_price"
    /\ fetch.price = DecimalToFloat(fetch.script[3].currentPrice)
    /\ Attempts(fetch.log) = 3 /\ Sleeps(fetch.log) = 2

\* the provider returns or raises on every attempt of the script
Responsive(script) ==
    \A i \in 1..Len(script) : script[i].kind # "hang"

\* C18: a get_price call makes at most 3 provider attempts, and when every
\* attempt returns or raises, the call returns or raises.
C18_BoundedAttempts ==
    /\ [](Attempts(fetch.log) <= 3)
    /\ (fetch.pc = "attempt" /\ Responsive(fetch.script)) ~> Finished

\* a call has raised after three rate-limited attempts
C18_Witness ==
    /\ fetch.pc = "raised"
    /\ RateLimitedBefore(fetch.script, 4)
    /\ Attempts(fetch.log) = 3

\* C19: a get_price call returns or raises in the end, also when a
\* provider call never responds.
C19_AttemptTimesOut ==
    (fetch.pc = "attempt") ~> Finished

\* C20: when a provider attempt raises without a rate-limit signal, after
\* rate limits on the attempts before it, get_price raises DataFetchError
\* and that attempt is the last entry of the log: no sleep and no attempt
\* follows it.
C20_FailurePropagates ==
    \A k \in 1..3 :
        (/\ Finished
         /\ RateLimitedBefore(fetch.script, k)
         /\ fetch.script[k].kind = "failure") =>
            /\ fetch.pc = "raised"
            /\ fetch.error = "DataFetchError"
            /\ Attempts(fetch.log) = k
            /\ Sleeps(fetch.log) = k - 1
            /\ fetch.log[Len(fetch.log)] = Event("attempt", k - 1)

\* a call has raised on a plain failure of its second attempt, after one
\* rate limit
C20_Witness ==
    /\ fetch.pc = "raised" /\ fetch.error = "DataFetchError"
    /\ fetch.script[1].kind = "rate_limit"
    /\ fetch.script[2].kind = "failure"
    /\ Len(fetch.log) = 3

\* the response that ended the call: that of the attempt the loop was in
LastResponse == fetch.script[fetch.attempt + 1]

C22_NoPriceIsFetchError ==
    (/\ Finished
     /\ fetch.call # "get_info"
     /\ LastResponse.kind = "info"
     /\ LastResponse.symbol
     /\ LastResponse.currentPrice = 0
     /\ LastResponse.regularMarketPrice = 0) =>
        fetch.pc = "raised" /\ fetch.error = "DataFetchError"

\* get_price has raised DataFetchError on an info with the symbol and a
\* previous close and no price
C22_Witness ==
    /\ fetch.call = "get_price"
    /\ fetch.pc = "raised" /\ fetch.error = "DataFetchError"
    /\ LastResponse.kind = "info" /\ LastResponse.symbol
    /\ LastResponse.currentPrice = 0
    /\ LastResponse.regularMarketPrice = 0
    /\ LastResponse.previousClose > 0

\* C23: a get_price or get_info call that raises, raises
\* SymbolNotFoundError or DataFetchError.
C23_TwoErrorKinds ==
    fetch.pc = "raised" =>
        fetch.error \in {"SymbolNotFoundError", "DataFetchError"}

\* get_info has raised DataFetchError after the provider raised a rate
\* limit on all three attempts
C23_Witness ==
    /\ fetch.call = "get_info"
    /\ fetch.pc = "raised" /\ fetch.error = "DataFetchError"
    /\ RateLimitedBefore(fetch.script, 4)
    /\ Attempts(fetch.log) = 3

\* the fetch of the script returns a quote: after rate limits on the
\* attempts before it, some attempt returns an info with the symbol and a
\* price
ReturnsQuote(script) ==
    \E k \in 1..3 :
        /\ RateLimitedBefore(script, k)
        /\ script[k].kind = "info"
        /\ script[k].symbol
        /\ script[k].currentPrice > 0 \/ script[k].regularMarketPrice > 0

\* C24: health_check returns True when its get_price call returns a quote
\* and False when it raises.
C24_HealthCheck ==
    fetch.pc = "checked" =>
        /\ fetch.healthy = ReturnsQuote(fetch.script)
        /\ fetch.healthy = (fetch.error = "")

\* health_check has returned False after get_price raised
\* SymbolNotFoundError
C24_Witness ==
    /\ fetch.pc = "checked" /\ ~fetch.healthy
    /\ fetch.error = "SymbolNotFoundError"

\* the field of the two that holds a value, the first one first
FirstUsable(primary, fallback) ==
    IF primary > 0 THEN primary ELSE fallback

\* C30: the price get_price returns is currentPrice when it holds one and
\* else regularMarketPrice; the change is that price minus previousClose,
\* or minus regularMarketPreviousClose when previousClose holds none; with
\* neither, change and change_percent are 0 and get_price still returns.
C30_FieldResolution ==
    (/\ Finished
     /\ fetch.call # "get_info"
     /\ LastResponse.kind = "info"
     /\ LastResponse.symbol
     /\ FirstUsable(LastResponse.currentPrice,
                    LastResponse.regularMarketPrice) > 0) =>
        LET current == DecimalToFloat(
                           FirstUsable(LastResponse.currentPrice,
                                       LastResponse.regularMarketPrice))
            previous == FirstUsable(LastResponse.previousClose,
                                    LastResponse.regularMarketPreviousClose)
        IN  /\ fetch.pc = "returned"
            /\ fetch.price = current
            /\ previous > 0 =>
                   fetch.change = FSub(current, DecimalToFloat(previous))
            /\ previous = 0 =>
                   IsZero(fetch.change) /\ IsZero(fetch.change_percent)

\* get_price has returned the regularMarketPrice of an info without
\* currentPrice, with the change from its regularMarketPreviousClose
C30_Witness ==
    /\ fetch.call = "get_price" /\ fetch.pc = "returned"
    /\ LastResponse.currentPrice = 0
    /\ LastResponse.previousClose = 0
    /\ LastResponse.regularMarketPreviousClose > 0
    /\ fetch.price = DecimalToFloat(LastResponse.regularMarketPrice)
    /\ ~IsZero(fetch.change)

\* the position the store holds for the owner and symbol of the command
\* handler p serves
Stored(p) ==
    get_holding_by_symbol(holdings,
                          get_portfolio(portfolios, req[p].user_id),
                          req[p].symbol)

\* C26: the ValueError of a rejected sell_holding names the quantity asked
\* for and the quantity the position holds in the store at the step that
\* rejects the sale.
C26_ErrorReportsHeld ==
    [][\A p \in Procs :
          (ret'[p] = "ValueError" /\ pc[p] = "sell_get_holding") =>
              /\ loc'[p].message.requested = req[p].quantity
              /\ loc'[p].message.held = Stored(p).quantity
              /\ FCmp(DecimalToFloat(req[p].quantity),
                      Stored(p).quantity) > 0]_vars

\* a sale of 2 shares was rejected with a message naming the 1 share held
C26_Witness ==
    \E p \in Procs :
        /\ pc[p] = "done" /\ ret[p] = "ValueError"
        /\ loc[p].message.requested = 20
        /\ loc[p].message.held = DecimalToFloat(10)

\* the price of the quote the fetch of the script returns
QuotedPrice(script) ==
    LET k == CHOOSE k \in 1..3 :
                 RateLimitedBefore(script, k) /\ script[k].kind = "info"
    IN  FirstUsable(script[k].currentPrice, script[k].regularMarketPrice)

\* the active holdings of the owner of the request handler p serves
ActiveHoldings(p) ==
    get_holdings(holdings, get_portfolio(portfolios, req[p].user_id))

\* C25: a /portfolio request over active holdings ends with the message,
\* built from one (holding, price) pair per holding, in the order of the
\* holdings; the price is that of the quote when get_price returns one
\* and the avg_cost of the holding when get_price raises, whatever
\* happened to the other holdings.
C25_ValuationFallback ==
    \A p \in Procs :
        (pc[p] = "done" /\ req[p].op = "PORTFOLIO") =>
            LET hs == ActiveHoldings(p)
                rs == loc[p].results
            IN  /\ ret[p] = IF hs = <<>> THEN "Empty" ELSE "Message"
                /\ hs # <<>> =>
                      /\ Len(rs) = Len(hs)
                      /\ \A i \in 1..Len(rs) :
                            /\ rs[i].holding = hs[i]
                            /\ rs[i].price =
                                  IF ReturnsQuote(loc[p].scripts[i])
                                  THEN DecimalToFloat(
                                           QuotedPrice(loc[p].scripts[i]))
                                  ELSE hs[i].avg_cost

\* a /portfolio request over two holdings has paired the first, whose
\* fetch raised, with its avg_cost and the second with its quote
C25_Witness ==
    \E p \in Procs :
        /\ pc[p] = "done" /\ req[p].op = "PORTFOLIO" /\ ret[p] = "Message"
        /\ Len(loc[p].results) = 2
        /\ ~ReturnsQuote(loc[p].scripts[1])
        /\ loc[p].results[1].price = loc[p].results[1].holding.avg_cost
        /\ ReturnsQuote(loc[p].scripts[2])
        /\ loc[p].results[2].price # loc[p].results[2].holding.avg_cost

\* a comes before b in the alphabet, for the tickers in use
Alphabetical(a, b) == <<a, b>> \in {<<"AAPL", "MSFT">>}

\* C27: get_holdings(user_id) returns the holdings rows of the owner's
\* portfolio that have quantity > 0, as they are in the store, each once
\* and in the order of their symbols, and the empty list for an owner
\* without portfolio.
C27_ActivePositions ==
    [][\A p \in Procs :
          (/\ pc[p] \in {"holdings_get_portfolio", "holdings_get_holdings"}
           /\ pc'[p] = "done") =>
              LET pid == get_portfolio(portfolios, req[p].user_id)
                  listed == loc'[p].positions
              IN  /\ pid = 0 => listed = <<>>
                  /\ \A k \in 1..Len(listed) :
                        LET i == listed[k].id
                        IN  /\ i \in 1..Len(holdings)
                            /\ listed[k] =
                                  Holding(i, pid, holdings[i].symbol,
                                          holdings[i].quantity,
                                          holdings[i].avg_cost)
                            /\ holdings[i].portfolio_id = pid
                            /\ FCmp(holdings[i].quantity, FZero) > 0
                  /\ \A i \in 1..Len(holdings) :
                        (/\ pid # 0
                         /\ holdings[i].portfolio_id = pid
                         /\ FCmp(holdings[i].quantity, FZero) > 0) =>
                            \E k \in 1..Len(listed) : listed[k].id = i
                  /\ \A j, k \in 1..Len(listed) :
                        j < k => Alphabetical(listed[j].symbol,
                                              listed[k].symbol)]_vars

\* get_holdings has listed two holdings, the one bought last first
C27_Witness ==
    \E p \in Procs :
        /\ pc[p] = "done" /\ req[p].op = "HOLDINGS"
        /\ Len(loc[p].positions) = 2
        /\ loc[p].positions[1].id = 2
        /\ loc[p].positions[2].id = 1

\* the request handler p has served reads only, or is a sale that found
\* nothing to sell
ReadOnly(p) ==
    \/ req[p].op \in {"HOLDINGS", "PORTFOLIO", "HISTORY"}
    \/ req[p].op = SELL /\ ret[p] = "None"

\* C28: get_holdings, /portfolio, /history and a sale that returns None
\* leave the three tables as they found them; none of them creates a
\* portfolio.
C28_ReadsLeaveStore ==
    \A p \in Procs :
        (pc[p] = "done" /\ ReadOnly(p)) =>
            /\ portfolios = base.portfolios
            /\ holdings = base.holdings
            /\ transactions = base.transactions

\* C29: an add_holding or sell_holding call one of whose store accesses
\* failed ends with an exception; a call that returns a Holding, or None,
\* has made every store access of its path.
C29_FaultSurfaces ==
    \A p \in Procs :
        (pc[p] = "done" /\ req[p].op \in {BUY, SELL}) =>
            /\ loc[p].failed # "" =>
                   ret[p] \in {"DatabaseError", "Error"}
            /\ ret[p] \in {"Holding", "None"} => loc[p].failed = ""

\* a buy whose holdings row was written has ended with DatabaseError on
\* the failure of record_transaction
C29_Witness ==
    \E p \in Procs :
        /\ pc[p] = "done" /\ req[p].op = BUY
        /\ loc[p].failed = "buy_record"
        /\ ret[p] = "DatabaseError"
        /\ holdings # base.holdings
        /\ transactions = base.transactions

\* the delays of the sleeps of a log, in the order they were slept
SleepDelays(log) == SelectSeq(log, LAMBDA e : e.event = "sleep")

\* C31: in one call the sleep after failed attempt n (n = 0, 1) lasts
\* between BASE_DELAY * 2^n and BASE_DELAY * 2^n + 1 seconds, so the first
\* lies in [2, 3] and the second in [4, 5], and each sleep is longer than
\* the one before it.
C31_BackoffIncreases ==
    LET sleeps == SleepDelays(fetch.log)
    IN  /\ \A i \in 1..Len(sleeps) :
               /\ i <= 2
               /\ sleeps[i].n >= BASE_DELAY * 2 ^ (i - 1)
               /\ sleeps[i].n <= BASE_DELAY * 2 ^ (i - 1) + 1
               /\ i = 1 => sleeps[i].n \in 2..3
               /\ i = 2 => sleeps[i].n \in 4..5
        /\ \A i \in 1..(Len(sleeps) - 1) : sleeps[i].n < sleeps[i + 1].n

\* a call has slept twice, the first time with the longest jitter and the
\* second time with the shortest
C31_Witness ==
    /\ Finished
    /\ SleepDelays(fetch.log) = <<Event("sleep", 3), Event("sleep", 4)>>

\* handler p takes a step of a buy or sell
Steps(p) == pc'[p] # pc[p] /\ req[p].op \in {BUY, SELL}

\* the holdings row i of the store after the step is the Position of the
\* owner and symbol of the command of handler p
Addressed(p, i) ==
    /\ holdings'[i].symbol = req[p].symbol
    /\ holdings'[i].portfolio_id \in 1..Len(portfolios')
    /\ portfolios'[holdings'[i].portfolio_id].telegram_user_id
           = req[p].user_id

\* C32: a step of a buy or sell keeps every holdings row and every ledger
\* entry there is; the only row it changes or adds is the one of the
\* owner and symbol of its command, and the only ledger entry it adds is
\* one of that row.  Rows and entries of other owners, and of the other
\* symbols of the same owner, stay as they are.
C32_OthersUntouched ==
    [][/\ Len(holdings') >= Len(holdings)
       /\ Len(transactions') >= Len(transactions)
       /\ \A i \in 1..Len(holdings') :
              (i > Len(holdings) \/ holdings'[i] # holdings[i]) =>
                  \E p \in Procs : Steps(p) /\ Addressed(p, i)
       /\ \A k \in 1..Len(transactions') :
              IF k <= Len(transactions)
              THEN transactions'[k] = transactions[k]
              ELSE /\ transactions'[k].holding_id \in 1..Len(holdings')
                   /\ \E p \in Procs :
                          /\ Steps(p)
                          /\ Addressed(p, transactions'[k].holding_id)
      ]_vars

\* a sell of a ticker by the owner who holds it and a buy of the same
\* ticker by the other owner have overlapped
C32_Witness ==
    /\ Quiescent
    /\ Len(batch) = 2
    /\ batch[1].user_id # batch[2].user_id
    /\ batch[1].symbol = batch[2].symbol
    /\ batch[1].op # batch[2].op
    /\ \A p \in Procs : ret[p] = "Holding"
    /\ Len(holdings) = 2
    /\ Len(transactions) = 3

\* /analyze has replied with the analysis message
Analyzed(p) == Returned(p, "ANALYZE") /\ ret[p] = "Message"

\* C33: a dividend yield below 0.15 is shown as 100 times its value and a
\* yield of 0.15 or more as its value, each with two decimals (a yield of
\* n ten-thousandths below 0.15 as n hundredths of a percent, 0.0041 as
\* 0.41%; one of 0.15 or more as the hundredths nearest to it, 5.2 as
\* 5.20%); a yield that is None or 0 is shown as N/A.
C33_DividendYield ==
    \A p \in Procs :
        Analyzed(p) =>
            LET y == loc[p].dividend_yield
                shown == loc[p].div_yield
            IN  /\ shown.available <=> (y.present /\ y.n # 0)
                /\ ~shown.available => shown = NotAvailable
                /\ (shown.available /\ y.n < 1500) => shown.hundredths = y.n
                /\ (shown.available /\ y.n >= 1500) =>
                       /\ 100 * shown.hundredths - y.n <= 50
                       /\ y.n - 100 * shown.hundredths <= 50
                /\ y = Yield(TRUE, 41) => shown = Percent(41)
                /\ y = Yield(TRUE, 52000) => shown = Percent(520)

\* a yield of exactly 0.15 has been shown as 0.15%
C33_Witness ==
    \E p \in Procs :
        /\ Analyzed(p)
        /\ loc[p].dividend_yield = Yield(TRUE, 1500)
        /\ loc[p].div_yield = Percent(15)

\* every holdings row of hs holds its BUY total minus its SELL total in
\* the ledger ts
Consistent(hs, ts) ==
    \A h \in 1..Len(hs) :
        hs[h].quantity = FSub(Total(EntriesOf(ts, h), BUY, FZero),
                              Total(EntriesOf(ts, h), SELL, FZero))

\* C34: a buy or sell that ended in the failure of a store access, on a
\* store whose rows agreed with the ledger, has changed the holdings table
\* and the ledger both or neither, and every row still holds its BUY
\* total minus its SELL total.
C34_FailureAtomic ==
    \A p \in Procs :
        (/\ pc[p] = "done" /\ req[p].op \in {BUY, SELL}
         /\ loc[p].failed # ""
         /\ Consistent(base.holdings, base.transactions)) =>
            /\ (holdings = base.holdings)
                   <=> (transactions = base.transactions)
            /\ Consistent(holdings, transactions)

\* C35: when an accepted sell and an accepted buy of the same Position
\* have overlapped and both have returned, the stored avg_cost is the one
\* the buy computed and wrote.
C35_SellKeepsBuyAvgCost ==
    \A b \in Procs, s \in Procs :
        (/\ Quiescent
         /\ Len(batch) = 2
         /\ Returned(b, BUY) /\ ret[b] = "Holding"
         /\ Returned(s, SELL) /\ ret[s] = "Holding"
         /\ req[b].user_id = req[s].user_id
         /\ req[b].symbol = req[s].symbol) =>
            After(s).avg_cost = loc[b].holding.avg_cost

\* the three provider attempts of the call raise a rate limit
AllRateLimited(script) == RateLimitedBefore(script, MAX_RETRIES + 1)

\* C36: when every provider attempt of a call raises a rate limit, the
\* call raises DataFetchError after exactly 3 attempts and exactly 2
\* sleeps, one sleep after each of the first two attempts and none after
\* the third; and until it raises it has neither returned nor made a
\* fourth attempt.
C36_RateLimitedThrice ==
    (fetch.pc # "idle" /\ AllRateLimited(fetch.script)) =>
        /\ fetch.pc # "returned"
        /\ Attempts(fetch.log) <= 3
        /\ Sleeps(fetch.log) <= 2
        /\ fetch.pc = "raised" =>
               /\ fetch.error = "DataFetchError"
               /\ Attempts(fetch.log) = 3
               /\ Sleeps(fetch.log) = 2
               /\ Len(fetch.log) = 5
               /\ \A i \in 1..5 :
                      fetch.log[i].event =
                          IF i % 2 = 1 THEN "attempt" ELSE "sleep"
               /\ fetch.log[5] = Event("attempt", 2)

\* a get_price call has raised DataFetchError on its third rate limit
C36_Witness ==
    /\ fetch.call = "get_price"
    /\ fetch.pc = "raised" /\ fetch.error = "DataFetchError"
    /\ AllRateLimited(fetch.script)
    /\ Len(fetch.log) = 5

\* every ledger entry names a holdings row and every holdings row a
\* portfolios row
Referenced ==
    /\ \A k \in 1..Len(transactions) :
           transactions[k].holding_id \in 1..Len(holdings)
    /\ \A h \in 1..Len(holdings) :
           holdings[h].portfolio_id \in 1..Len(portfolios)

\* C37: in every reachable state every ledger entry refers to an existing
\* Position and every Position to an existing Account; a buy or sell
\* writes its Position in one step and appends its ledger entry in a
\* later one, which finds the row of the entry in the holdings table and
\* leaves that table alone.
C37_WriteThenRecord ==
    /\ []Referenced
    /\ [][/\ holdings' # holdings =>
              /\ transactions' = transactions
              /\ \E p \in Procs :
                     /\ pc[p] \in {"buy_write", "sell_write"}
                     /\ pc'[p] \in {"buy_record", "sell_record"}
          /\ transactions' # transactions =>
              /\ holdings' = holdings
              /\ Len(transactions') = Len(transactions) + 1
              /\ \E p \in Procs :
                     /\ pc[p] \in {"buy_record", "sell_record"}
                     /\ pc'[p] = "done"
                     /\ loc[p].holding.id \in 1..Len(holdings)
                     /\ transactions'[Len(transactions')].holding_id
                            = loc[p].holding.id
         ]_vars

\* a sell that overlapped with another command has returned, and the
\* ledger holds three entries of the one Position of the one Account
C37_Witness ==
    /\ Len(batch) = 2
    /\ \E p \in Procs : Returned(p, SELL) /\ ret[p] = "Holding"
    /\ Len(transactions) = 3
    /\ Len(holdings) = 1
    /\ Len(portfolios) = 1

\* C38: the Holding an accepted sell returns, when the sell ran alone, has
\* the quantity the Position had before minus the sold quantity (0 when
\* all of it was sold) and the avg_cost it had before, and is the Position
\* the store holds after the sell.
C38_ReturnedPosition ==
    \A p \in Procs :
        (Returned(p, SELL) /\ ret[p] = "Holding") =>
            /\ loc[p].holding.quantity = FSub(Before(p).quantity, qty(p))
            /\ FCmp(qty(p), Before(p).quantity) = 0 =>
                   loc[p].holding.quantity = FZero
            /\ loc[p].holding.avg_cost = Before(p).avg_cost
            /\ loc[p].holding = After(p)

\* a sell has returned a Holding with quantity 0 for a Position that an
\* earlier sell had reduced
C38_Witness ==
    \E p \in Procs :
        /\ Returned(p, SELL) /\ ret[p] = "Holding"
        /\ loc[p].holding.quantity = FZero
        /\ FCmp(Before(p).quantity, FZero) > 0
        /\ Len(SelectSeq(EntriesOf(transactions, loc[p].holding.id),
                          LAMBDA t : t.transaction_type = SELL)) = 2

\* C39: a buy on a Position that was sold down to quantity 0 has written
\* the row the Position already had, which stays the only row of its
\* portfolio and symbol, with the bought quantity as quantity and the buy
\* price as avg_cost.
C39_ReopenedPosition ==
    \A p \in Procs :
        (/\ Returned(p, BUY) /\ ret[p] = "Holding"
         /\ Before(p).id # 0
         /\ Before(p).quantity = FZero) =>
            /\ After(p).id = Before(p).id
            /\ Len(holdings) = Len(base.holdings)
            /\ \A h \in 1..Len(holdings) :
                   (/\ holdings[h].portfolio_id = After(p).portfolio_id
                    /\ holdings[h].symbol = After(p).symbol) =>
                       h = After(p).id
            /\ After(p).quantity = qty(p)
            /\ After(p).avg_cost = price(p)

====
